---- MODULE Spec2Model ----
(***************************************************************************)
(* Entity-Component-System core of the engine: the EntityManager (entity   *)
(* registry with ID recycling) and the per-entity component table.         *)
(*                                                                         *)
(* Entities and components are heap objects.  An object is named by a      *)
(* handle (its identity): entity handles are 1..MaxEntities in allocation  *)
(* order, component handles 1..MaxComps.  A handle is never the entity ID: *)
(* the ID is the Entity::id field, and IDs are recycled while handles are  *)
(* not.                                                                    *)
(***************************************************************************)
EXTENDS Integers, Sequences, FiniteSets, TLC

\* ------------------------------------------------------------------ bounds
MaxEntities == 4        \* Entity objects constructed in a behaviour of SpecRegistry
MaxOwners == 2          \* Entity objects constructed in a behaviour of Spec
MaxComps == 2           \* Component objects constructed in a behaviour of Spec
NumTypes == 2           \* distinct component types (std::type_index values)
MaxMutations == 3       \* Transform mutator calls in a behaviour of SpecTransform
MaxScenes == 3          \* Scene objects built in a behaviour of SpecSceneManager
MaxFrames == 2          \* update() and render() calls in such a behaviour
PlayerComponent == 1    \* the type index of the example's PlayerComponent
DefaultMoveSpeed == 5   \* PlayerComponent::moveSpeed as the example builds it
MaxTimers == 2          \* Timer objects created in a behaviour
MaxPasses == 2          \* updateTimers calls in a behaviour
Absorbing == -4         \* a timeLeft so low that adding a delay leaves it there
MaxLoops == 3           \* frames of the main loop in a behaviour of SpecEngine
MaxLogCalls == 3        \* Logger calls begun in a behaviour of SpecLogger
MaxSystems == 3         \* System objects built in a behaviour of SpecSystems

Types == 1..NumTypes
Positions == {0, 1}                \* coordinates of SpecTransform
Scales == {1, 2}                   \* scale factors of SpecTransform
Joiners == {1, 2, 3}               \* the Entity objects of SpecOrder
Subjects == {1, 2}                 \* the Entity objects a System is given
Delays == {-1, 0, 1, 2}            \* delays of the timers, in seconds
DeltaTimes == {1, 2}               \* deltaTime of an updateTimers call
Threads == {1, 2}                  \* the threads that call the Logger
TimeSteps == {1, 2}                \* values of deltaTime in SpecMembership
SystemTypes == {1, 2}              \* system types of SpecSystems
EntityNames == {1, 2}              \* entity names of SpecScene
SceneNames == {1, 2}               \* scene names of SpecSceneManager
Addresses == {1, 2, 3}              \* addresses the allocator gives to Scenes
EntityHandles == 1..(MaxEntities + MaxOwners)
ForeignEntity == MaxEntities + MaxOwners + 1   \* an Entity of another EntityManager
Null == 0                          \* nullptr
InitialNextIds == {0, 1}           \* value of nextId after construction

VARIABLES
    entities,     \* EntityManager::entities : ID -> owned Entity
    freeIds,      \* EntityManager::freeIds  : queue of IDs to be reused
    nextId,       \* EntityManager::nextId
    idOf,         \* Entity::id of every Entity object constructed so far
    nextHandle,   \* the next Entity object to be constructed
    components,   \* Entity::components of every live Entity : type -> Component
    compHeap,     \* the live Component objects : handle -> [type, owner]
    nextComp,     \* the next Component object to be constructed
    destroyed,    \* history: destroyed Entity -> the Components its table held
    destroyLog,   \* history: the IDs released by destroyEntity, in order
    reissueLog,   \* history: the IDs createEntity took from freeIds, in order
    attached,     \* history: <<entity, type, component>> of every successful
                  \*          addComponent not followed by a successful remove
    last          \* the last call and what it returned

ecsVars == <<entities, freeIds, nextId, idOf, nextHandle, components, compHeap,
             nextComp, destroyed, destroyLog, reissueLog, attached, last>>

VARIABLES
    position,          \* Transform::position (one axis of the Vector3)
    rotation,          \* Transform::rotation, Euler degrees
    scale,             \* Transform::scale
    parent,            \* Transform::parent, or nullptr
    dirtyLocalMatrix,  \* Transform::dirtyLocalMatrix
    dirtyWorldMatrix,  \* Transform::dirtyWorldMatrix
    localMatrix,       \* Transform::localMatrix, the cached local matrix
    worldMatrix,       \* Transform::worldMatrix, the cached world matrix
    localRecomputes,   \* history: recomputations of localMatrix since the
                       \*          Transform's last mutation
    worldRecomputes,   \* history: the same for worldMatrix
    mutations,         \* history: mutator calls made so far
    tLast              \* the last Transform call and the matrix it returned

transformVars == <<position, rotation, scale, parent, dirtyLocalMatrix,
                   dirtyWorldMatrix, localMatrix, worldMatrix, localRecomputes,
                   worldRecomputes, mutations, tLast>>

VARIABLES
    scenes,            \* SceneManager::scenes: name -> address of the Scene
    activeScene,       \* SceneManager::activeScene: an address, or nullptr
    sceneHeap,         \* the Scene objects alive, by address
    addrOf,            \* history: the address each Scene ever built got
    frames,            \* history: update() and render() calls made so far
    activeDestroyed,   \* history: the active scene was destroyed and no
                       \*          setActiveScene has succeeded since
    mLast              \* the last SceneManager call and what it returned

managerVars == <<scenes, activeScene, sceneHeap, addrOf, frames,
                 activeDestroyed, mLast>>

VARIABLES
    entityNames,       \* Scene::entityNames: name -> Entity
    nameOf,            \* Entity::name of every Entity ever created by name
    sLast              \* the last Scene call and what it returned

sceneVars == <<entityNames, nameOf, sLast>>

VARIABLES
    systems,           \* Scene::systems: system type -> System instance
    sysHeap,           \* the System objects alive, by instance
    sysDead,           \* history: the System objects destroyed, with whether
                       \*          they were registered and their shutdown() calls
    registration,      \* history: the instances registered, in addSystem order
    updateLog,         \* history: the instances the last Scene::update called
    sysFrames,         \* history: Scene::update calls made so far
    sceneGone,         \* the Scene has been destroyed
    yLast              \* the last call on the Scene's systems and its result

systemVars == <<systems, sysHeap, sysDead, registration, updateLog, sysFrames,
                sceneGone, yLast>>

VARIABLES
    requiredComponents, \* System::requiredComponents
    members,            \* System::entities, the membership list
    ePosition,          \* position of the embedded Transform of the entities
                        \* that have been moved (the others are at the origin)
    eParent,            \* parent of the embedded Transform of the entities
                        \* that have been given one: the Entity it belongs to
    uFrames,            \* history: System::update calls made so far
    visited,            \* history: the entities the last System::update ran
                        \* its per-entity logic on, in the order it did
    uLast               \* the last call on the System and what it returned

memberVars == <<requiredComponents, members, ePosition, eParent, uFrames,
                visited, uLast>>

VARIABLES
    timers,             \* Time::timers, a std::vector<Timer>
    nextTimerId,        \* Time::nextTimerId
    capacity,           \* timers.capacity()
    timePc,             \* where Time::updateTimers stands
    timeIt,             \* the iterator it of updateTimers, as an index
    timeDelta,          \* the deltaTime of the updateTimers call under way
    fired,              \* history: the ids whose callbacks the pass under
                        \* way has run, in order
    passes,             \* history: updateTimers calls made so far
    kLast               \* history: the last call on the Time object

timeVars == <<timers, nextTimerId, capacity, timePc, timeIt, timeDelta, fired,
              passes, kLast>>

VARIABLES
    initialized,        \* Logger::initialized
    sinks,              \* Logger::sinks, as the number of sinks held
    mutexOwner,         \* the thread that holds Logger::mutex, Null if none
    logPc,              \* where each thread stands in its Logger call
    logOp,              \* the Logger function each thread is in
    logCalls,           \* history: Logger calls begun so far
    written             \* history: sink->write calls made so far

loggerVars == <<initialized, sinks, mutexOwner, logPc, logOp, logCalls, written>>

VARIABLES
    running,            \* Engine::running
    enginePc,           \* the statement of processFrame that comes next
                        \* (past the last one: the test at the end of the loop)
    frameLog,           \* history: the subsystem calls of the frame under way
    frameNo,            \* history: frames begun so far
    deltaTime,          \* Time::deltaTime, which the updates are given
    totalTime           \* history: the sum of the frames' delta times

engineVars == <<running, enginePc, frameLog, frameNo, deltaTime, totalTime>>

\* The state of the subsystems of Engine/Core.
coreVars == <<timeVars, loggerVars, engineVars>>

vars == <<ecsVars, transformVars, managerVars, sceneVars, systemVars,
          memberVars, coreVars>>

registryVars == <<entities, freeIds, nextId>>

\* ------------------------------------------------------ container helpers
EmptyMap == [x \in {} |-> 0]

MapFind(m, k) == k \in DOMAIN m

MapAssign(m, k, v) == [x \in (DOMAIN m) \cup {k} |-> IF x = k THEN v ELSE m[x]]

MapErase(m, k) == [x \in (DOMAIN m) \ {k} |-> m[x]]

Range(m) == {m[x] : x \in DOMAIN m}

\* std::queue<uint32_t>: push at the back, front/pop at the head.
QueuePushFront(q, x) == <<x>> \o q

QueuePush(q, x) == Append(q, x)

QueueFront(q) == Head(q)

QueuePop(q) == Tail(q)

IsPrefix(s, t) == Len(s) <= Len(t) /\ SubSeq(t, 1, Len(s)) = s

NoDuplicates(s) == \A i, j \in 1..Len(s) : s[i] = s[j] => i = j

Call(op, ent, type, res, inst) ==
    [op |-> op, ent |-> ent, type |-> type, res |-> res, inst |-> inst]

\* ------------------------------------------------------------ EntityManager
\* EntityManager::getEntity: the entity stored under id, or nullptr.
getEntity(id) == IF MapFind(entities, id) THEN entities[id] ELSE Null

\* The live entities: the Entity objects the map owns.
LiveEntities == Range(entities)

\* createEntity's choice of ID: the front of freeIds (popped) when the queue is
\* non-empty, else nextId++.
AllocateIdNoPop(free, next) ==
    IF free # <<>>
    THEN [id |-> QueueFront(free), freeIds |-> free, nextId |-> next]
    ELSE [id |-> next, freeIds |-> free, nextId |-> next + 1]

AllocateIdStuckCounter(free, next) ==
    IF free # <<>>
    THEN [id |-> QueueFront(free), freeIds |-> QueuePop(free), nextId |-> next]
    ELSE [id |-> next, freeIds |-> free, nextId |-> next]

AllocateId(free, next) ==
    IF free # <<>>
    THEN [id |-> QueueFront(free), freeIds |-> QueuePop(free), nextId |-> next]
    ELSE [id |-> next, freeIds |-> free, nextId |-> next + 1]

\* destroyEntity's lookup: the map keys under which this very Entity object is
\* stored; empty for a stale reference.
LookupEntity(h) == {id \in DOMAIN entities : entities[id] = h}

\* The component table of a newly constructed Entity.
FreshComponents == EmptyMap

\* Destruction of an Entity destroys the Component objects its table owns.
LeakComponents(heap, table) == heap

ReleaseComponents(heap, table) ==
    [c \in (DOMAIN heap) \ Range(table) |-> heap[c]]

CreateEntity(max) ==
    /\ nextHandle <= max
    /\ LET a == AllocateId(freeIds, nextId)
           h == nextHandle
           recycled == freeIds # <<>>
       IN  /\ entities' = MapAssign(entities, a.id, h)
           /\ freeIds' = a.freeIds
           /\ nextId' = a.nextId
           /\ idOf' = MapAssign(idOf, h, a.id)
           /\ nextHandle' = h + 1
           /\ components' = MapAssign(components, h, FreshComponents)
           /\ reissueLog' = IF recycled THEN Append(reissueLog, a.id) ELSE reissueLog
           /\ last' = Call("createEntity", h, 0,
                           IF recycled THEN "recycled" ELSE "fresh", 0)
    /\ UNCHANGED <<compHeap, nextComp, destroyed, destroyLog, attached>>

\* The references a caller can pass: every Entity ever returned by createEntity
\* (live or already destroyed) and an Entity of another manager.
EntityRefs == (1..(nextHandle - 1)) \cup {ForeignEntity}

\* destroyEntity without the staleness check: erases whatever is stored under
\* the reference's ID and releases that ID.
DestroyEntityUnchecked(h) ==
    /\ h \in EntityRefs
    /\ LET stale == h \notin LiveEntities
           res == IF stale THEN "stale" ELSE "destroyed"
       IN  IF h \in DOMAIN idOf
           THEN LET id == idOf[h]
                    victims == IF MapFind(entities, id) THEN {entities[id]} ELSE {}
                    tables == [x \in {c \in DOMAIN compHeap :
                                       \E v \in victims : c \in Range(components[v])}
                               |-> x]
                IN  /\ entities' = MapErase(entities, id)
                    /\ freeIds' = QueuePush(freeIds, id)
                    /\ compHeap' = ReleaseComponents(compHeap, tables)
                    /\ components' = [x \in (DOMAIN components) \ victims
                                           |-> components[x]]
                    /\ destroyed' = [x \in (DOMAIN destroyed) \cup victims |->
                                        IF x \in victims THEN Range(components[x])
                                        ELSE destroyed[x]]
                    /\ destroyLog' = Append(destroyLog, id)
                    /\ attached' = {a \in attached : a[1] \notin victims}
                    /\ last' = Call("destroyEntity", h, 0, res, 0)
                    /\ UNCHANGED <<nextId, idOf, nextHandle, nextComp, reissueLog>>
           ELSE /\ last' = Call("destroyEntity", h, 0, res, 0)
                /\ UNCHANGED <<entities, freeIds, nextId, idOf, nextHandle,
                               components, compHeap, nextComp, destroyed,
                               destroyLog, reissueLog, attached>>

DestroyEntity(h) ==
    /\ h \in EntityRefs
    /\ LET found == LookupEntity(h)
           stale == h \notin LiveEntities
       IN  IF found # {}
           THEN LET id == CHOOSE k \in found : TRUE
                    victim == entities[id]
                IN  /\ entities' = MapErase(entities, id)
                    /\ freeIds' = QueuePush(freeIds, id)
                    /\ compHeap' = ReleaseComponents(compHeap, components[victim])
                    /\ components' = MapErase(components, victim)
                    /\ destroyed' = MapAssign(destroyed, victim,
                                              Range(components[victim]))
                    /\ destroyLog' = Append(destroyLog, id)
                    /\ attached' = {a \in attached : a[1] # victim}
                    /\ last' = Call("destroyEntity", h, 0,
                                    IF stale THEN "stale" ELSE "destroyed", 0)
                    /\ UNCHANGED <<nextId, idOf, nextHandle, nextComp, reissueLog>>
           ELSE /\ last' = Call("destroyEntity", h, 0,
                                IF stale THEN "stale" ELSE "destroyed", 0)
                /\ UNCHANGED <<entities, freeIds, nextId, idOf, nextHandle,
                               components, compHeap, nextComp, destroyed,
                               destroyLog, reissueLog, attached>>

\* ------------------------------------------------------------------ Entity
\* Entity::hasComponent<T>.
hasComponent(h, t) == MapFind(components[h], t)

\* Entity::getComponent<T>: the stored component, or the thrown error.
NotFound == 0

getComponent(h, t) ==
    IF MapFind(components[h], t) THEN components[h][t] ELSE NotFound

\* addComponent's duplicate check.
NoDuplicateCheck(h, t) == FALSE

AlreadyAttached(h, t) == MapFind(components[h], t)

\* new T(args...); component->setOwner(this).
NewComponent(h, t) == [type |-> t, owner |-> h]

\* components[type] = std::unique_ptr<Component>(component): the unique_ptr
\* assigned over, if any, destroys its Component.
StoreComponent(h, t, c) ==
    /\ compHeap' = MapAssign(
           ReleaseComponents(compHeap,
               [x \in {t} \cap DOMAIN components[h] |-> components[h][x]]),
           c, NewComponent(h, t))
    /\ components' = [components EXCEPT ![h] = MapAssign(@, t, c)]

AddComponent(h, t) ==
    /\ h \in DOMAIN components
    /\ t \in Types
    /\ IF AlreadyAttached(h, t)
       THEN /\ last' = Call("addComponent", h, t, "AlreadyExists", 0)
            /\ UNCHANGED <<entities, freeIds, nextId, idOf, nextHandle,
                           components, compHeap, nextComp, destroyed,
                           destroyLog, reissueLog, attached>>
       ELSE /\ nextComp <= MaxComps
            /\ StoreComponent(h, t, nextComp)
            /\ nextComp' = nextComp + 1
            /\ attached' = {a \in attached : ~(a[1] = h /\ a[2] = t)}
                               \cup {<<h, t, nextComp>>}
            /\ last' = Call("addComponent", h, t, "ok", nextComp)
            /\ UNCHANGED <<entities, freeIds, nextId, idOf, nextHandle,
                           destroyed, destroyLog, reissueLog>>

\* components.erase(it): the entry goes and its unique_ptr destroys the Component.
EraseNothing(h, t) == UNCHANGED <<components, compHeap>>

EraseAllComponents(h, t) ==
    /\ compHeap' = ReleaseComponents(compHeap, components[h])
    /\ components' = [components EXCEPT ![h] = EmptyMap]

EraseComponent(h, t) ==
    /\ compHeap' = ReleaseComponents(compHeap, [x \in {t} |-> components[h][t]])
    /\ components' = [components EXCEPT ![h] = MapErase(@, t)]

RemoveComponent(h, t) ==
    /\ h \in DOMAIN components
    /\ t \in Types
    /\ IF ~MapFind(components[h], t)
       THEN /\ last' = Call("removeComponent", h, t, "false", 0)
            /\ UNCHANGED <<entities, freeIds, nextId, idOf, nextHandle,
                           components, compHeap, nextComp, destroyed,
                           destroyLog, reissueLog, attached>>
       ELSE /\ EraseComponent(h, t)
            /\ attached' = {a \in attached : ~(a[1] = h /\ a[2] = t)}
            /\ last' = Call("removeComponent", h, t, "true", 0)
            /\ UNCHANGED <<entities, freeIds, nextId, idOf, nextHandle,
                           nextComp, destroyed, destroyLog, reissueLog>>

\* --------------------------------------------------------------- Component
\* Component::setOwner, a public method: any caller holding a component (say
\* through getComponent<T>()) can store any Entity pointer, or nullptr, in it.
SetOwner(c, e) ==
    /\ c \in DOMAIN compHeap
    /\ e \in EntityRefs \cup {Null}
    /\ compHeap' = [compHeap EXCEPT ![c].owner = e]
    /\ last' = Call("setOwner", e, compHeap[c].type, "ok", c)
    /\ UNCHANGED <<entities, freeIds, nextId, idOf, nextHandle, components,
                   nextComp, destroyed, destroyLog, reissueLog, attached>>

\* --------------------------------------------------------------- Transform
\* The Transforms of a behaviour: 1 and 2, enough for a parent and a child, a
\* Transform that is its own parent, and a cycle of two.
Transforms == {1, 2}
Rotations == {0, 180}      \* Euler degrees about the axis normal to the one kept

\* A Matrix4 is kept as its action on one axis: x |-> a * x + b, that is the
\* entries (0,0) and (0,3) of the 4x4 matrix.  Half turns keep the axis.
Matrix(a, b) == [a |-> a, b |-> b]

\* Matrix4::Matrix4(): the identity.
Identity == Matrix(1, 0)

\* Matrix4::translation.
Translation(p) == Matrix(1, p)

\* Matrix4::rotation of an angle given in degrees (cos of a multiple of 180).
Rotation(r) == Matrix(IF (r \div 180) % 2 = 0 THEN 1 ELSE -1, 0)

\* Matrix4::scaling.
Scaling(k) == Matrix(k, 0)

\* Matrix4::operator*.
Mul(m, n) == Matrix(m.a * n.a, m.a * n.b + m.b)

\* Matrix4::getTranslation.
getTranslation(m) == m.b

\* translationMatrix * rotationMatrix * scaleMatrix of getLocalMatrix.
ComposeTRS(p, r, k) == Mul(Mul(Translation(p), Rotation(r)), Scaling(k))

\* The flags, caches and recomputation counts a matrix read works on.
Caches ==
    [dl |-> dirtyLocalMatrix, dw |-> dirtyWorldMatrix, lm |-> localMatrix,
     wm |-> worldMatrix, lc |-> localRecomputes, wc |-> worldRecomputes,
     ok |-> TRUE]

\* Transform::getLocalMatrix on Transform t, from caches c.
LocalEvalAlways(t, c) ==
    [c EXCEPT !.lm[t] = ComposeTRS(position[t], rotation[t], scale[t]),
              !.dl[t] = FALSE,
              !.lc[t] = @ + 1]

LocalEval(t, c) ==
    IF c.dl[t]
    THEN [c EXCEPT !.lm[t] = ComposeTRS(position[t], rotation[t], scale[t]),
                   !.dl[t] = FALSE,
                   !.lc[t] = @ + 1]
    ELSE c

\* Transform::getWorldMatrix on Transform t, from caches c.  The call recurses
\* into the parent while the parent is world-dirty; depth is the number of
\* nested calls still allowed before the chain is known to be a cycle of dirty
\* Transforms, on which the recursion never returns (ok = FALSE).
RECURSIVE WorldEval(_, _, _)
WorldEval(t, c, depth) ==
    IF ~c.dw[t]
    THEN c
    ELSE IF parent[t] # Null
         THEN IF depth = 0
              THEN [c EXCEPT !.ok = FALSE]
              ELSE LET up == WorldEval(parent[t], c, depth - 1)
                       lo == LocalEval(t, up)
                   IN  IF ~up.ok
                       THEN up
                       ELSE [lo EXCEPT
                                !.wm[t] = Mul(up.wm[parent[t]], lo.lm[t]),
                                !.dw[t] = FALSE,
                                !.wc[t] = @ + 1]
         ELSE LET lo == LocalEval(t, c)
              IN  [lo EXCEPT !.wm[t] = lo.lm[t],
                             !.dw[t] = FALSE,
                             !.wc[t] = @ + 1]

\* A call whose recursion overflowed the stack ended the process.
Running == tLast.op # "overflow"

Store(c) ==
    /\ dirtyLocalMatrix' = c.dl
    /\ dirtyWorldMatrix' = c.dw
    /\ localMatrix' = c.lm
    /\ worldMatrix' = c.wm
    /\ localRecomputes' = c.lc
    /\ worldRecomputes' = c.wc

\* History: a call op on Transform t with argument arg, the matrix it returned
\* and whether it recomputed the matrix it was asked for.
TCall(op, t, arg, ret, recomputed) ==
    [op |-> op, t |-> t, arg |-> arg, ret |-> ret, recomputed |-> recomputed]

GetLocalMatrix(t) ==
    /\ Running
    /\ LET c == LocalEval(t, Caches)
       IN  /\ Store(c)
           /\ tLast' = TCall("getLocalMatrix", t, 0, c.lm[t],
                          c.lc[t] # localRecomputes[t])
    /\ UNCHANGED <<position, rotation, scale, parent, mutations>>

GetWorldMatrix(t) ==
    /\ Running
    /\ LET c == WorldEval(t, Caches, Cardinality(Transforms))
       IN  IF c.ok
           THEN /\ Store(c)
                /\ tLast' = TCall("getWorldMatrix", t, 0, c.wm[t],
                               c.wc[t] # worldRecomputes[t])
           ELSE /\ tLast' = TCall("overflow", t, 0, Identity, FALSE)
                /\ UNCHANGED <<dirtyLocalMatrix, dirtyWorldMatrix, localMatrix,
                               worldMatrix, localRecomputes, worldRecomputes>>
    /\ UNCHANGED <<position, rotation, scale, parent, mutations>>

\* dirtyLocalMatrix = true; dirtyWorldMatrix = true; of every mutator.
MarkDirtyWithChildren(t) ==
    /\ dirtyLocalMatrix' = [dirtyLocalMatrix EXCEPT ![t] = TRUE]
    /\ dirtyWorldMatrix' =
           [u \in Transforms |->
               IF u = t \/ parent[u] = t THEN TRUE ELSE dirtyWorldMatrix[u]]

MarkDirtyLocalOnly(t) ==
    /\ dirtyLocalMatrix' = [dirtyLocalMatrix EXCEPT ![t] = TRUE]
    /\ dirtyWorldMatrix' = dirtyWorldMatrix

MarkDirty(t) ==
    /\ dirtyLocalMatrix' = [dirtyLocalMatrix EXCEPT ![t] = TRUE]
    /\ dirtyWorldMatrix' = [dirtyWorldMatrix EXCEPT ![t] = TRUE]

\* History: Transform t was mutated by op; its recomputation counts restart.
Mutated(t, op, arg) ==
    /\ mutations < MaxMutations
    /\ mutations' = mutations + 1
    /\ tLast' = TCall(op, t, arg, Identity, FALSE)
    /\ localRecomputes' = [localRecomputes EXCEPT ![t] = 0]
    /\ worldRecomputes' = [worldRecomputes EXCEPT ![t] = 0]

SetPosition(t, v) ==
    /\ Running
    /\ position' = [position EXCEPT ![t] = v]
    /\ MarkDirty(t)
    /\ Mutated(t, "setPosition", v)
    /\ UNCHANGED <<rotation, scale, parent, localMatrix, worldMatrix>>

SetRotation(t, v) ==
    /\ Running
    /\ rotation' = [rotation EXCEPT ![t] = v]
    /\ MarkDirty(t)
    /\ Mutated(t, "setRotation", v)
    /\ UNCHANGED <<position, scale, parent, localMatrix, worldMatrix>>

SetScale(t, v) ==
    /\ Running
    /\ scale' = [scale EXCEPT ![t] = v]
    /\ MarkDirty(t)
    /\ Mutated(t, "setScale", v)
    /\ UNCHANGED <<position, rotation, parent, localMatrix, worldMatrix>>

Translate(t, v) ==
    /\ Running
    /\ position[t] + v \in Positions
    /\ position' = [position EXCEPT ![t] = @ + v]
    /\ MarkDirty(t)
    /\ Mutated(t, "translate", v)
    /\ UNCHANGED <<rotation, scale, parent, localMatrix, worldMatrix>>

Rotate(t, v) ==
    /\ Running
    /\ rotation[t] + v \in Rotations
    /\ rotation' = [rotation EXCEPT ![t] = @ + v]
    /\ MarkDirty(t)
    /\ Mutated(t, "rotate", v)
    /\ UNCHANGED <<position, scale, parent, localMatrix, worldMatrix>>

Scale(t, v) ==
    /\ Running
    /\ scale[t] * v \in Scales
    /\ scale' = [scale EXCEPT ![t] = @ * v]
    /\ MarkDirty(t)
    /\ Mutated(t, "scale", v)
    /\ UNCHANGED <<position, rotation, parent, localMatrix, worldMatrix>>

\* Transform::setParent.
NoEarlyReturn(t, p) == FALSE

SameParent(t, p) == parent[t] = p

SetParent(t, p) ==
    /\ Running
    /\ IF SameParent(t, p)
       THEN /\ tLast' = TCall("setParent", t, p, Identity, FALSE)
            /\ UNCHANGED <<position, rotation, scale, parent, dirtyLocalMatrix,
                           dirtyWorldMatrix, localMatrix, worldMatrix,
                           localRecomputes, worldRecomputes, mutations>>
       ELSE /\ parent' = [parent EXCEPT ![t] = p]
            /\ dirtyWorldMatrix' = [dirtyWorldMatrix EXCEPT ![t] = TRUE]
            /\ Mutated(t, "setParent", p)
            /\ UNCHANGED <<position, rotation, scale, dirtyLocalMatrix,
                           localMatrix, worldMatrix>>

Reset(t) ==
    /\ Running
    /\ position' = [position EXCEPT ![t] = 0]
    /\ rotation' = [rotation EXCEPT ![t] = 0]
    /\ scale' = [scale EXCEPT ![t] = 1]
    /\ parent' = [parent EXCEPT ![t] = Null]
    /\ MarkDirty(t)
    /\ Mutated(t, "reset", 0)
    /\ UNCHANGED <<localMatrix, worldMatrix>>

\* Transform::Transform(): at the origin, no parent, both flags dirty.
InitTransform ==
    /\ position = [t \in Transforms |-> 0]
    /\ rotation = [t \in Transforms |-> 0]
    /\ scale = [t \in Transforms |-> 1]
    /\ parent = [t \in Transforms |-> Null]
    /\ dirtyLocalMatrix = [t \in Transforms |-> TRUE]
    /\ dirtyWorldMatrix = [t \in Transforms |-> TRUE]
    /\ localMatrix = [t \in Transforms |-> Identity]
    /\ worldMatrix = [t \in Transforms |-> Identity]
    /\ localRecomputes = [t \in Transforms |-> 0]
    /\ worldRecomputes = [t \in Transforms |-> 0]
    /\ mutations = 0
    /\ tLast = TCall("init", 0, 0, Identity, FALSE)

NextTransform ==
    /\ \/ \E t \in Transforms, v \in Positions : SetPosition(t, v)
       \/ \E t \in Transforms, v \in Rotations : SetRotation(t, v)
       \/ \E t \in Transforms, v \in Scales : SetScale(t, v)
       \/ \E t \in Transforms, v \in Positions : Translate(t, v)
       \/ \E t \in Transforms, v \in Rotations : Rotate(t, v)
       \/ \E t \in Transforms, v \in Scales : Scale(t, v)
       \/ \E t \in Transforms, p \in Transforms \cup {Null} : SetParent(t, p)
       \/ \E t \in Transforms : Reset(t)
       \/ \E t \in Transforms : GetLocalMatrix(t)
       \/ \E t \in Transforms : GetWorldMatrix(t)
    /\ UNCHANGED <<ecsVars, managerVars, sceneVars, systemVars, memberVars,
                 coreVars>>

\* ------------------------------------------------------------ SceneManager
\* A Scene object: which Scene it is (history: Scenes are numbered as they
\* are built), whether the manager owns it, and the calls of Scene::update and
\* Scene::render it has received.
NewScene(id, owned) ==
    [id |-> id, owned |-> owned, updates |-> 0, renders |-> 0]

\* The addresses operator new can return: those of no live object.  A freed
\* address can be given out again.
FreeAddresses == Addresses \ DOMAIN sceneHeap

\* History: a call op with argument arg (a name or a pointer), for a pointer
\* the Scene it was obtained for, and the value returned.
MCall(op, arg, id, res) == [op |-> op, arg |-> arg, id |-> id, res |-> res]

\* scenes.find(name) != scenes.end()
NameNeverTaken(name) == FALSE

NameTaken(name) == name \in DOMAIN scenes

CreateScene(name) ==
    IF NameTaken(name)
    THEN /\ mLast' = MCall("createScene", name, 0, scenes[name])
         /\ UNCHANGED <<scenes, activeScene, sceneHeap, addrOf, frames,
                        activeDestroyed>>
    ELSE /\ Cardinality(DOMAIN addrOf) < MaxScenes
         /\ \E a \in FreeAddresses :
               LET id == Cardinality(DOMAIN addrOf) + 1
               IN  /\ sceneHeap' = MapAssign(sceneHeap, a, NewScene(id, TRUE))
                   /\ scenes' = MapAssign(scenes, name, a)
                   /\ addrOf' = MapAssign(addrOf, id, a)
                   /\ mLast' = MCall("createScene", name, 0, a)
         /\ UNCHANGED <<activeScene, frames, activeDestroyed>>

\* std::make_unique<Scene>(...) by the application, as in the example's main.
ConstructScene ==
    /\ Cardinality(DOMAIN addrOf) < MaxScenes
    /\ \A i \in DOMAIN addrOf :
          addrOf[i] \in DOMAIN sceneHeap => sceneHeap[addrOf[i]].owned
    /\ \E a \in FreeAddresses :
          LET id == Cardinality(DOMAIN addrOf) + 1
          IN  /\ sceneHeap' = MapAssign(sceneHeap, a, NewScene(id, FALSE))
              /\ addrOf' = MapAssign(addrOf, id, a)
              /\ mLast' = MCall("Scene", 0, 0, a)
    /\ UNCHANGED <<scenes, activeScene, frames, activeDestroyed>>

\* if (activeScene == it->second.get()) activeScene = nullptr;
KeepActive(a) == activeScene

ClearAlways(a) == Null

ClearActive(a) == IF activeScene = a THEN Null ELSE activeScene

DestroyScene(name) ==
    IF name \notin DOMAIN scenes
    THEN /\ mLast' = MCall("destroyScene", name, 0, FALSE)
         /\ UNCHANGED <<scenes, activeScene, sceneHeap, addrOf, frames,
                        activeDestroyed>>
    ELSE /\ activeScene' = ClearActive(scenes[name])
         /\ activeDestroyed' = (activeDestroyed \/ activeScene = scenes[name])
         /\ scenes' = MapErase(scenes, name)
         /\ sceneHeap' = MapErase(sceneHeap, scenes[name])
         /\ mLast' = MCall("destroyScene", name, 0, TRUE)
         /\ UNCHANGED <<addrOf, frames>>

\* The pointers a caller can hold: nullptr, and for every Scene ever built the
\* address it was built at, whether or not that Scene still exists.
ScenePointers == {[a |-> Null, id |-> 0]} \cup
                 {[a |-> addrOf[i], id |-> i] : i \in DOMAIN addrOf}

\* The loop of setActiveScene: pair.second.get() == scene for some entry.
AnyPointer(a) == TRUE

OwnedPointer(a) == \E n \in DOMAIN scenes : scenes[n] = a

SetActiveScene(ptr) ==
    IF ptr.a # Null /\ OwnedPointer(ptr.a)
    THEN /\ activeScene' = ptr.a
         /\ activeDestroyed' = FALSE
         /\ mLast' = MCall("setActiveScene", ptr.a, ptr.id, TRUE)
         /\ UNCHANGED <<scenes, sceneHeap, addrOf, frames>>
    ELSE /\ mLast' = MCall("setActiveScene", ptr.a, ptr.id, FALSE)
         /\ UNCHANGED <<scenes, activeScene, sceneHeap, addrOf, frames,
                        activeDestroyed>>

\* The scenes one SceneManager::update or render call works on.
AllScenes == Range(scenes)

UpdateTargets == IF activeScene # Null THEN {activeScene} ELSE {}

\* SceneManager::update: activeScene->update(deltaTime), if there is one.
Update ==
    /\ frames < MaxFrames
    /\ frames' = frames + 1
    /\ sceneHeap' = [a \in DOMAIN sceneHeap |->
                        IF a \in UpdateTargets
                        THEN [sceneHeap[a] EXCEPT !.updates = @ + 1]
                        ELSE sceneHeap[a]]
    /\ mLast' = MCall("update", 0, 0, UpdateTargets)
    /\ UNCHANGED <<scenes, activeScene, addrOf, activeDestroyed>>

\* SceneManager::render: activeScene->render(), if there is one.
Render ==
    /\ frames < MaxFrames
    /\ frames' = frames + 1
    /\ sceneHeap' = [a \in DOMAIN sceneHeap |->
                        IF a \in UpdateTargets
                        THEN [sceneHeap[a] EXCEPT !.renders = @ + 1]
                        ELSE sceneHeap[a]]
    /\ mLast' = MCall("render", 0, 0, UpdateTargets)
    /\ UNCHANGED <<scenes, activeScene, addrOf, activeDestroyed>>

\* SceneManager::shutdown.
Shutdown ==
    /\ activeScene' = Null
    /\ scenes' = EmptyMap
    /\ sceneHeap' = [a \in DOMAIN sceneHeap \ Range(scenes) |-> sceneHeap[a]]
    /\ mLast' = MCall("shutdown", 0, 0, TRUE)
    /\ UNCHANGED <<addrOf, frames, activeDestroyed>>

\* SceneManager::SceneManager: no scene, no active scene.
InitSceneManager ==
    /\ scenes = EmptyMap
    /\ activeScene = Null
    /\ sceneHeap = EmptyMap
    /\ addrOf = EmptyMap
    /\ frames = 0
    /\ activeDestroyed = FALSE
    /\ mLast = MCall("init", 0, 0, TRUE)

NextSceneManager ==
    /\ \/ \E name \in SceneNames : CreateScene(name)
       \/ ConstructScene
       \/ \E name \in SceneNames : DestroyScene(name)
       \/ \E ptr \in ScenePointers : SetActiveScene(ptr)
       \/ Update
       \/ Render
       \/ Shutdown
    /\ UNCHANGED <<ecsVars, transformVars, sceneVars, systemVars, memberVars,
                 coreVars>>

\* ------------------------------------------------------------------- Scene
\* History: a Scene call op with a name and an Entity argument, and the Entity
\* it returned (Null for nullptr and for void).
SCall(op, name, ent, res) == [op |-> op, name |-> name, ent |-> ent, res |-> res]

\* entityNames[name] = entity;
InsertIfAbsent(m, name, h) == IF MapFind(m, name) THEN m ELSE MapAssign(m, name, h)

InsertName(m, name, h) == MapAssign(m, name, h)

\* Scene::createEntity(name): a new Entity from the manager, named, and
\* entered in the name map.
SceneCreateEntity(name) ==
    /\ CreateEntity(MaxOwners)
    /\ nameOf' = MapAssign(nameOf, nextHandle, name)
    /\ entityNames' = InsertName(entityNames, name, nextHandle)
    /\ sLast' = SCall("createEntity", name, 0, nextHandle)

\* Entity::setName on a live Entity.
SetName(h, name) ==
    /\ h \in LiveEntities
    /\ nameOf' = MapAssign(nameOf, h, name)
    /\ sLast' = SCall("setName", name, h, Null)
    /\ UNCHANGED <<ecsVars, entityNames>>

\* The name-map entry Scene::destroyEntity erases: the one found under the
\* Entity's current name, if it points at the Entity.
EraseCurrentName(m, h) ==
    IF MapFind(m, nameOf[h]) /\ m[nameOf[h]] = h THEN MapErase(m, nameOf[h]) ELSE m

\* Scene::destroyEntity on nullptr or on a live Entity.
SceneDestroyEntity(h) ==
    IF h = Null
    THEN /\ sLast' = SCall("destroyEntity", 0, Null, Null)
         /\ UNCHANGED <<ecsVars, entityNames, nameOf>>
    ELSE /\ h \in LiveEntities
         /\ entityNames' = EraseCurrentName(entityNames, h)
         /\ DestroyEntity(h)
         /\ sLast' = SCall("destroyEntity", nameOf[h], h, Null)
         /\ UNCHANGED nameOf

\* Scene::getEntityByName.
getEntityByName(name) ==
    IF MapFind(entityNames, name) THEN entityNames[name] ELSE Null

GetEntityByName(name) ==
    /\ sLast' = SCall("getEntityByName", name, 0, getEntityByName(name))
    /\ UNCHANGED <<ecsVars, entityNames, nameOf>>

\* Scene::Scene: no Entity, no name.
InitScene ==
    /\ entityNames = EmptyMap
    /\ nameOf = EmptyMap
    /\ sLast = SCall("init", 0, 0, Null)

NextScene ==
    /\ \/ \E name \in EntityNames : SceneCreateEntity(name)
       \/ \E h \in EntityHandles, name \in EntityNames : SetName(h, name)
       \/ \E h \in EntityHandles \cup {Null} : SceneDestroyEntity(h)
       \/ \E name \in EntityNames : GetEntityByName(name)
    /\ UNCHANGED <<transformVars, managerVars, systemVars, memberVars,
                 coreVars>>

\* ----------------------------------------------------------- Scene systems
\* A System object of type T, with the shutdown() and update() calls it has
\* received.
NewSystem(T) == [type |-> T, shutdowns |-> 0, updates |-> 0]

\* History: what is kept of a System object once it is destroyed.
Obituary(sys, registered) ==
    [type |-> sys.type, registered |-> registered, shutdowns |-> sys.shutdowns]

\* History: a call op for system type T, the result of initialize() and the
\* value returned (an instance, Null for nullptr, or the error thrown).
YCall(op, T, ok, res) == [op |-> op, type |-> T, ok |-> ok, res |-> res]

\* The instances built so far are numbered 1, 2, ...
NextInstance == Cardinality(DOMAIN sysHeap \cup DOMAIN sysDead) + 1

\* if (!system->initialize()) throw ...
NeverFails(ok) == FALSE

InitFailed(ok) == ~ok

\* systems[typeid(T)] = std::move(system);
StoreIfAbsent(m, T, i) == IF MapFind(m, T) THEN m ELSE MapAssign(m, T, i)

StoreSystem(m, T, i) == MapAssign(m, T, i)

\* Scene::addSystem<T>, with ok the value T::initialize() returns.
AddSystem(T, ok) ==
    /\ ~sceneGone
    /\ NextInstance <= MaxSystems
    /\ LET i == NextInstance
           stored == StoreSystem(systems, T, i)
           dropped == (Range(systems) \cup {i}) \ Range(stored)
           heap == MapAssign(sysHeap, i, NewSystem(T))
       IN  IF InitFailed(ok)
           THEN /\ sysDead' = MapAssign(sysDead, i, Obituary(NewSystem(T), FALSE))
                /\ yLast' = YCall("addSystem", T, ok, "SystemInitFailed")
                /\ UNCHANGED <<systems, sysHeap, registration>>
           ELSE /\ systems' = stored
                /\ sysHeap' = [j \in DOMAIN heap \ dropped |-> heap[j]]
                /\ sysDead' = [j \in DOMAIN sysDead \cup dropped |->
                                  IF j \in dropped
                                  THEN Obituary(heap[j], j # i)
                                  ELSE sysDead[j]]
                /\ registration' = IF i \in Range(stored)
                                   THEN Append(registration, i)
                                   ELSE registration
                /\ yLast' = YCall("addSystem", T, ok, i)
    /\ UNCHANGED <<updateLog, sysFrames, sceneGone>>

\* Scene::getSystem<T>.
getSystem(T) == IF MapFind(systems, T) THEN systems[T] ELSE Null

GetSystem(T) ==
    /\ ~sceneGone
    /\ yLast' = YCall("getSystem", T, TRUE, getSystem(T))
    /\ UNCHANGED <<systems, sysHeap, sysDead, registration, updateLog,
                   sysFrames, sceneGone>>

\* The application shuts a registered system down: getSystem<T>()->shutdown().
ShutdownSystem(T) ==
    /\ ~sceneGone
    /\ MapFind(systems, T)
    /\ sysHeap[systems[T]].shutdowns = 0
    /\ sysHeap' = [sysHeap EXCEPT ![systems[T]].shutdowns = @ + 1]
    /\ yLast' = YCall("shutdown", T, TRUE, systems[T])
    /\ UNCHANGED <<systems, sysDead, registration, updateLog, sysFrames,
                   sceneGone>>

\* The sequences that enumerate the set S, each element once.
Orders(S) ==
    {q \in [1..Cardinality(S) -> S] : \A x \in S : \E k \in DOMAIN q : q[k] = x}

\* The instances currently registered, in the order of their addSystem calls.
RegistrationOrder == SelectSeq(registration, LAMBDA i : i \in Range(systems))

\* for (auto &pair : systems): the order in which a std::unordered_map is
\* traversed is fixed by the hash of the keys and the bucket count, not by the
\* order of insertion; any order of the entries can result.
IterationOrders == Orders(Range(systems))

\* Scene::update: every registered system's update(deltaTime), once each.
SceneUpdate ==
    /\ ~sceneGone
    /\ sysFrames < MaxFrames
    /\ sysFrames' = sysFrames + 1
    /\ \E q \in IterationOrders :
          /\ updateLog' = q
          /\ sysHeap' = [i \in DOMAIN sysHeap |->
                            [sysHeap[i] EXCEPT !.updates =
                                @ + Cardinality({k \in DOMAIN q : q[k] = i})]]
    /\ yLast' = YCall("update", 0, TRUE, Null)
    /\ UNCHANGED <<systems, sysDead, registration, sceneGone>>

\* Scene::~Scene: systems.clear() destroys every registered System.
DestroySceneObject ==
    /\ ~sceneGone
    /\ sceneGone' = TRUE
    /\ systems' = EmptyMap
    /\ sysHeap' = EmptyMap
    /\ sysDead' = [j \in DOMAIN sysDead \cup DOMAIN sysHeap |->
                      IF j \in DOMAIN sysHeap
                      THEN Obituary(sysHeap[j], TRUE)
                      ELSE sysDead[j]]
    /\ yLast' = YCall("~Scene", 0, TRUE, Null)
    /\ UNCHANGED <<registration, updateLog, sysFrames>>

\* Scene::Scene: no system.
InitSystems ==
    /\ systems = EmptyMap
    /\ sysHeap = EmptyMap
    /\ sysDead = EmptyMap
    /\ registration = <<>>
    /\ updateLog = <<>>
    /\ sysFrames = 0
    /\ sceneGone = FALSE
    /\ yLast = YCall("init", 0, TRUE, Null)

NextSystems ==
    /\ \/ \E T \in SystemTypes, ok \in BOOLEAN : AddSystem(T, ok)
       \/ \E T \in SystemTypes : GetSystem(T)
       \/ \E T \in SystemTypes : ShutdownSystem(T)
       \/ SceneUpdate
       \/ DestroySceneObject
    /\ UNCHANGED <<ecsVars, transformVars, managerVars, sceneVars, memberVars,
                 coreVars>>

\* ------------------------------------------------------------------ System
\* History: a call op on the System or on an Entity's Transform, with the
\* Entity and the other argument passed, and the value returned.
UCall(op, ent, arg, res) == [op |-> op, ent |-> ent, arg |-> arg, res |-> res]

\* A dangling Entity pointer has been dereferenced: what the process does from
\* there on is not defined, and no further call is described.
Defined == uLast.op # "use-after-free"

\* System::hasRequiredComponents: every required type is attached.
hasSomeRequiredComponent(h) ==
    \E t \in requiredComponents : hasComponent(h, t)

hasRequiredComponents(h) ==
    \A t \in requiredComponents : hasComponent(h, t)

HasRequiredComponents(h) ==
    /\ Defined
    /\ h \in LiveEntities
    /\ uLast' = UCall("hasRequiredComponents", h, 0, hasRequiredComponents(h))
    /\ UNCHANGED <<ecsVars, requiredComponents, members, ePosition, eParent,
                   uFrames,
                   visited>>

\* requiredComponents.insert(std::type_index(typeid(T))), as the constructor of
\* a System subclass does.
RequireComponent(t) ==
    /\ Defined
    /\ requiredComponents' = requiredComponents \cup {t}
    /\ uLast' = UCall("requireComponent", 0, t, TRUE)
    /\ UNCHANGED <<ecsVars, members, ePosition, eParent, uFrames,
                   visited>>

\* entities.push_back(e)
PushFront(list, h) == <<h>> \o list

PushBack(list, h) == Append(list, h)

\* System::addEntity: e joins the end of the membership list, unless it is a
\* member already.
AddEntity(h) ==
    /\ Defined
    /\ h \in LiveEntities
    /\ members' = IF \E k \in DOMAIN members : members[k] = h
                  THEN members
                  ELSE PushBack(members, h)
    /\ uLast' = UCall("addEntity", h, 0, TRUE)
    /\ UNCHANGED <<ecsVars, requiredComponents, ePosition, eParent, uFrames,
                   visited>>

\* The list without h, the other entries in the order they had.
Erase(list, h) == SelectSeq(list, LAMBDA e : e # h)

\* System::removeEntity: e leaves the membership list, the others keep their
\* order.
RemoveEntity(h) ==
    /\ Defined
    /\ h \in LiveEntities
    /\ members' = Erase(members, h)
    /\ uLast' = UCall("removeEntity", h, 0, TRUE)
    /\ UNCHANGED <<ecsVars, requiredComponents, ePosition, eParent, uFrames,
                   visited>>

\* Transform::getPosition of the Entity's Transform (the constructor puts it
\* at the origin).
getPosition(pos, h) == IF MapFind(pos, h) THEN pos[h] ELSE 0

\* Transform::getParent of the Entity's Transform (nullptr at construction).
getParent(h) == IF MapFind(eParent, h) THEN eParent[h] ELSE Null

\* Transform::translate on the Transform of Entity h.
TranslateTwice(pos, h, v) == MapAssign(pos, h, getPosition(pos, h) + v + v)

translate(pos, h, v) == MapAssign(pos, h, getPosition(pos, h) + v)

\* The loop of PlayerSystem::update with only the key W held: each member, in
\* list order, is translated by moveSpeed * deltaTime along +Z, moveSpeed
\* being read from its PlayerComponent.  getComponent throws on a member that
\* has no PlayerComponent, and the loop ends there; a member that was
\* destroyed is a dangling pointer.
RECURSIVE RunUpdate(_, _, _, _)
RunUpdate(list, pos, dt, done) ==
    IF list = <<>>
    THEN [pos |-> pos, res |-> "ok", done |-> done]
    ELSE IF Head(list) \notin LiveEntities
         THEN [pos |-> pos, res |-> "use-after-free", done |-> done]
         ELSE IF ~hasComponent(Head(list), PlayerComponent)
              THEN [pos |-> pos, res |-> "NotFound", done |-> done]
              ELSE RunUpdate(Tail(list),
                             translate(pos, Head(list), DefaultMoveSpeed * dt),
                             dt,
                             Append(done, Head(list)))

\* System::update(deltaTime), as Scene::update calls it.
SystemUpdate(dt) ==
    /\ Defined
    /\ uFrames < MaxFrames
    /\ uFrames' = uFrames + 1
    /\ LET run == RunUpdate(members, ePosition, dt, <<>>)
       IN  /\ ePosition' = run.pos
           /\ visited' = run.done
           /\ uLast' = UCall(IF run.res = "use-after-free" THEN run.res ELSE "update",
                             0, dt, run.res)
    /\ UNCHANGED <<ecsVars, requiredComponents, members, eParent>>

\* Transform::setParent on the Transform of Entity c, with the Transform of
\* Entity p or nullptr.
EntitySetParent(c, p) ==
    /\ Defined
    /\ c \in LiveEntities
    /\ p \in LiveEntities \cup {Null}
    /\ eParent' = IF getParent(c) = p THEN eParent ELSE MapAssign(eParent, c, p)
    /\ uLast' = UCall("setParent", c, p, TRUE)
    /\ UNCHANGED <<ecsVars, requiredComponents, members, ePosition, uFrames,
                   visited>>

\* EntityManager::destroyEntity on a live Entity: the Entity goes, and with it
\* its components and its embedded Transform.
DestroyLiveEntity(h) ==
    /\ Defined
    /\ h \in LiveEntities
    /\ DestroyEntity(h)
    /\ ePosition' = IF MapFind(ePosition, h) THEN MapErase(ePosition, h) ELSE ePosition
    /\ eParent' = IF MapFind(eParent, h) THEN MapErase(eParent, h) ELSE eParent
    /\ uLast' = UCall("destroyEntity", h, 0, TRUE)
    /\ UNCHANGED <<requiredComponents, members, uFrames,
                   visited>>

\* An operation of EntityManager or Entity that the System takes no part in.
Resubscribing(A) ==
    /\ Defined
    /\ A
    /\ uLast' = UCall(last'.op, last'.ent, last'.type, TRUE)
    /\ members' = SelectSeq(members,
                            LAMBDA e : /\ e \in DOMAIN components'
                                       /\ PlayerComponent \in DOMAIN components'[e])
    /\ UNCHANGED <<requiredComponents, ePosition, eParent, uFrames,
                   visited>>

Apart(A) ==
    /\ Defined
    /\ A
    /\ uLast' = UCall(last'.op, last'.ent, last'.type, TRUE)
    /\ UNCHANGED <<requiredComponents, members, ePosition, eParent, uFrames,
                   visited>>

\* System::System: nothing required, no member.
InitSystem ==
    /\ requiredComponents = {}
    /\ members = <<>>
    /\ ePosition = EmptyMap
    /\ eParent = EmptyMap
    /\ uFrames = 0
    /\ visited = <<>>
    /\ uLast = UCall("init", 0, 0, TRUE)

\* entity->addComponent<PlayerComponent>() on the Entity that createEntity
\* has just returned, as the example's main sets its player up.
EquipEntity(h) ==
    /\ last.op = "createEntity"
    /\ last.ent = h
    /\ AddComponent(h, PlayerComponent)

\* A System's required set queried against entities whose components change.
NextRequired ==
    /\ \/ Apart(CreateEntity(Cardinality(Subjects)))
       \/ \E h \in EntityHandles, t \in Types : Apart(AddComponent(h, t))
       \/ \E h \in EntityHandles, t \in Types : Apart(RemoveComponent(h, t))
       \/ \E t \in Types : RequireComponent(t)
       \/ \E h \in EntityHandles : HasRequiredComponents(h)
    /\ UNCHANGED <<transformVars, managerVars, sceneVars, systemVars,
                 coreVars>>

\* The movement System of a Scene, with entities that gain and lose the
\* PlayerComponent and join and leave the membership list.
NextMembership ==
    /\ \/ Apart(CreateEntity(Cardinality(Subjects)))
       \/ \E h \in EntityHandles : Apart(AddComponent(h, PlayerComponent))
       \/ \E h \in EntityHandles : Apart(RemoveComponent(h, PlayerComponent))
       \/ \E h \in EntityHandles : AddEntity(h)
       \/ \E h \in EntityHandles : RemoveEntity(h)
       \/ \E dt \in TimeSteps : SystemUpdate(dt)
    /\ UNCHANGED <<transformVars, managerVars, sceneVars, systemVars,
                 coreVars>>

\* The membership list of the movement System with entities that join it in
\* any order, leave it and join again.
NextOrder ==
    /\ \/ Apart(CreateEntity(Cardinality(Joiners)))
       \/ \E h \in EntityHandles : Apart(EquipEntity(h))
       \/ \E h \in EntityHandles : AddEntity(h)
       \/ \E h \in EntityHandles : RemoveEntity(h)
       \/ \E dt \in {1} : SystemUpdate(dt)
    /\ UNCHANGED <<transformVars, managerVars, sceneVars, systemVars,
                 coreVars>>

\* Entities that join the membership list, are given parents, and are
\* destroyed.
NextLifetime ==
    /\ \/ Apart(CreateEntity(MaxOwners))
       \/ \E h \in EntityHandles : DestroyLiveEntity(h)
       \/ \E h \in EntityHandles : AddEntity(h)
       \/ \E c \in EntityHandles, p \in EntityHandles \cup {Null} :
             EntitySetParent(c, p)
       \/ \E dt \in TimeSteps : SystemUpdate(dt)
    /\ UNCHANGED <<transformVars, managerVars, sceneVars, systemVars,
                 coreVars>>

\* -------------------------------------------------------------------- Time
\* float addition on the values kept: exact above Absorbing, and stuck at
\* Absorbing from there down.
Plus(x, d) == IF x + d < Absorbing THEN Absorbing ELSE x + d

\* What a timer's callback does: nothing to the Time object, createTimer of a
\* one-shot timer, or cancelTimer of the timer with id arg.
Callbacks ==
    {[kind |-> "none", arg |-> 0], [kind |-> "create", arg |-> 0]} \cup
    {[kind |-> "cancel", arg |-> i] : i \in 1..MaxTimers}

PlainCallback == [kind |-> "none", arg |-> 0]

\* The Timer that createTimer builds.
NewTimer(id, cb, delay, repeat) ==
    [id |-> id, delay |-> delay, timeLeft |-> delay, repeat |-> repeat,
     callback |-> cb]

\* History: a call op on the Time object with argument arg, and its result.
KCall(op, arg, res) == [op |-> op, arg |-> arg, res |-> res]

\* timers.push_back(timer) reallocates when the vector is full, and the new
\* block has room for twice as many elements (one, for an empty vector).
Reallocates == Len(timers) = capacity

Grown == IF Reallocates THEN (IF capacity = 0 THEN 1 ELSE 2 * capacity) ELSE capacity

\* The position of the first Timer with this id, 0 if there is none.
Find(id) ==
    IF \E k \in DOMAIN timers : timers[k].id = id
    THEN CHOOSE k \in DOMAIN timers :
            /\ timers[k].id = id
            /\ \A j \in 1..(k - 1) : timers[j].id # id
    ELSE 0

\* timers.erase(it) at position k.
EraseAt(list, k) == SubSeq(list, 1, k - 1) \o SubSeq(list, k + 1, Len(list))

\* Time::createTimer, called between two updates.
CreateTimer(cb, delay, repeat) ==
    /\ timePc = "idle"
    /\ nextTimerId <= MaxTimers
    /\ timers' = Append(timers, NewTimer(nextTimerId, cb, delay, repeat))
    /\ capacity' = Grown
    /\ nextTimerId' = nextTimerId + 1
    /\ kLast' = KCall("createTimer", delay, nextTimerId)
    /\ UNCHANGED <<timePc, timeIt, timeDelta, fired, passes>>

\* Time::cancelTimer, called between two updates.
CancelTimer(id) ==
    /\ timePc = "idle"
    /\ timers' = IF Find(id) = 0 THEN timers ELSE EraseAt(timers, Find(id))
    /\ kLast' = KCall("cancelTimer", id, Find(id) # 0)
    /\ UNCHANGED <<nextTimerId, capacity, timePc, timeIt, timeDelta, fired,
                   passes>>

\* Time::updateTimers is entered: it = timers.begin().
UpdateTimers(dt) ==
    /\ timePc = "idle"
    /\ passes < MaxPasses
    /\ passes' = passes + 1
    /\ timePc' = "loop"
    /\ timeIt' = 1
    /\ timeDelta' = dt
    /\ fired' = <<>>
    /\ kLast' = KCall("updateTimers", dt, 0)
    /\ UNCHANGED <<timers, nextTimerId, capacity>>

\* The head of the for loop: the test it != timers.end(), then
\* it->timeLeft -= deltaTime and the test of expiry.
LoopStep ==
    /\ timePc = "loop"
    /\ IF timeIt > Len(timers)
       THEN /\ timePc' = "idle"
            /\ UNCHANGED <<timers, timeIt>>
       ELSE LET left == Plus(timers[timeIt].timeLeft, 0 - timeDelta)
            IN  /\ timers' = [timers EXCEPT ![timeIt].timeLeft = left]
                /\ IF left <= 0
                   THEN timePc' = "callback" /\ timeIt' = timeIt
                   ELSE timePc' = "loop" /\ timeIt' = timeIt + 1
    /\ UNCHANGED <<nextTimerId, capacity, timeDelta, fired, passes, kLast>>

\* it->callback(): the callback runs, and with it the createTimer or
\* cancelTimer it calls on the same Time object.  A push_back that
\* reallocates, and an erase at or before it, invalidate the iterator the loop
\* goes on to use: from there the behaviour is undefined.
CallbackStep ==
    /\ timePc = "callback"
    /\ fired' = Append(fired, timers[timeIt].id)
    /\ LET cb == timers[timeIt].callback
       IN  CASE cb.kind = "none" ->
                  /\ timePc' = "after"
                  /\ UNCHANGED <<timers, nextTimerId, capacity>>
             [] cb.kind = "create" ->
                  /\ nextTimerId <= MaxTimers
                  /\ timers' = Append(timers,
                                      NewTimer(nextTimerId, PlainCallback, 1, FALSE))
                  /\ capacity' = Grown
                  /\ nextTimerId' = nextTimerId + 1
                  /\ timePc' = IF Reallocates THEN "undefined" ELSE "after"
             [] cb.kind = "cancel" ->
                  LET k == Find(cb.arg)
                  IN  /\ timers' = IF k = 0 THEN timers ELSE EraseAt(timers, k)
                      /\ timePc' = IF k # 0 /\ k <= timeIt THEN "undefined"
                                   ELSE "after"
                      /\ UNCHANGED <<nextTimerId, capacity>>
    /\ UNCHANGED <<timeIt, timeDelta, passes, kLast>>

\* After the callback: a repeating timer gets it->timeLeft += it->delay and
\* enters the while loop, a one-shot timer is erased and it moves to the
\* next one.
AfterStep ==
    /\ timePc = "after"
    /\ IF timers[timeIt].repeat
       THEN /\ timers' = [timers EXCEPT
                             ![timeIt].timeLeft = Plus(@, timers[timeIt].delay)]
            /\ timePc' = "rearm"
       ELSE /\ timers' = EraseAt(timers, timeIt)
            /\ timePc' = "loop"
    /\ UNCHANGED <<nextTimerId, capacity, timeIt, timeDelta, fired, passes,
                   kLast>>

\* while (it->timeLeft <= 0.0f) it->timeLeft += it->delay; then ++it.
RearmStep ==
    /\ timePc = "rearm"
    /\ IF timers[timeIt].timeLeft <= 0
       THEN /\ timers' = [timers EXCEPT
                             ![timeIt].timeLeft = Plus(@, timers[timeIt].delay)]
            /\ UNCHANGED <<timePc, timeIt>>
       ELSE /\ timePc' = "loop"
            /\ timeIt' = timeIt + 1
            /\ UNCHANGED timers
    /\ UNCHANGED <<nextTimerId, capacity, timeDelta, fired, passes, kLast>>

\* One step of the updateTimers call under way.
PassStep == LoopStep \/ CallbackStep \/ AfterStep \/ RearmStep

\* Time::Time: no timer, ids from 1.
InitTime ==
    /\ timers = <<>>
    /\ nextTimerId = 1
    /\ capacity = 0
    /\ timePc = "idle"
    /\ timeIt = 0
    /\ timeDelta = 0
    /\ fired = <<>>
    /\ passes = 0
    /\ kLast = KCall("init", 0, 0)

Elsewhere ==
    UNCHANGED <<ecsVars, transformVars, managerVars, sceneVars, systemVars,
                memberVars, loggerVars, engineVars>>

\* Timers whose callbacks leave the Time object alone.
NextTimers ==
    /\ \/ \E d \in Delays, r \in BOOLEAN : CreateTimer(PlainCallback, d, r)
       \/ \E id \in 1..MaxTimers : CancelTimer(id)
       \/ \E dt \in DeltaTimes : UpdateTimers(dt)
       \/ LoopStep
       \/ CallbackStep
       \/ AfterStep
       \/ RearmStep
    /\ Elsewhere

\* Timers with positive delays whose callbacks may call createTimer and
\* cancelTimer.
NextReentrant ==
    /\ \/ \E cb \in Callbacks, d \in {x \in Delays : x > 0}, r \in BOOLEAN :
             CreateTimer(cb, d, r)
       \/ \E id \in 1..MaxTimers : CancelTimer(id)
       \/ \E dt \in DeltaTimes : UpdateTimers(dt)
       \/ LoopStep
       \/ CallbackStep
       \/ AfterStep
       \/ RearmStep
    /\ Elsewhere

\* ------------------------------------------------------------------ Logger
\* The static functions of Logger that take Logger::mutex.
LoggerOps == {"init", "shutdown", "log", "addSink"}

\* What locking a std::mutex that the calling thread already owns can do: the
\* behaviour is undefined.  The thread waits for itself for ever, or lock()
\* throws std::system_error (resource_deadlock_would_occur), or the lock is
\* taken as if the mutex were free.
RelockOutcomes == {"blocks", "throws", "passes"}

At(t, pc) == logPc' = [logPc EXCEPT ![t] = pc]

\* A thread enters one of the functions.
LoggerCall(t, op) ==
    /\ logPc[t] = "idle"
    /\ logCalls < MaxLogCalls
    /\ logCalls' = logCalls + 1
    /\ logOp' = [logOp EXCEPT ![t] = op]
    /\ At(t, "lock")
    /\ UNCHANGED <<initialized, sinks, mutexOwner, written>>

\* std::lock_guard<std::mutex> lock(mutex), the first statement of each.
Acquire(t) ==
    /\ logPc[t] = "lock"
    /\ mutexOwner = Null
    /\ mutexOwner' = t
    /\ At(t, "body")
    /\ UNCHANGED <<initialized, sinks, logOp, logCalls, written>>

\* if (!initialized) init(); of log and addSink.
NeedsInit(t) == ~initialized

\* The rest of log (sink->write on every sink) and of addSink (push_back).
Finish(t) ==
    /\ sinks' = IF logOp[t] = "addSink" THEN sinks + 1 ELSE sinks
    /\ written' = IF logOp[t] = "log" THEN written + sinks ELSE written

\* The body of the function, with the mutex held.
Body(t) ==
    /\ logPc[t] = "body"
    /\ CASE logOp[t] = "init" ->
              /\ initialized' = TRUE
              /\ sinks' = IF initialized THEN sinks ELSE sinks + 1
              /\ At(t, "unlock")
              /\ UNCHANGED written
         [] logOp[t] = "shutdown" ->
              /\ initialized' = FALSE
              /\ sinks' = IF initialized THEN 0 ELSE sinks
              /\ At(t, "unlock")
              /\ UNCHANGED written
         [] logOp[t] \in {"log", "addSink"} ->
              IF NeedsInit(t)
              THEN /\ At(t, "relock")
                   /\ UNCHANGED <<initialized, sinks, written>>
              ELSE /\ Finish(t)
                   /\ At(t, "unlock")
                   /\ UNCHANGED initialized
    /\ UNCHANGED <<mutexOwner, logOp, logCalls>>

\* init() called from log or addSink: its lock_guard locks Logger::mutex,
\* which the thread holds.
Relock(t, outcome) ==
    /\ logPc[t] = "relock"
    /\ CASE outcome = "blocks" ->
              /\ At(t, "blocked")
              /\ UNCHANGED <<initialized, sinks, mutexOwner>>
         [] outcome = "throws" ->
              /\ At(t, "unlock")
              /\ UNCHANGED <<initialized, sinks, mutexOwner>>
         [] outcome = "passes" ->
              /\ initialized' = TRUE
              /\ sinks' = sinks + 1
              /\ mutexOwner' = Null
              /\ At(t, "resume")
    /\ UNCHANGED <<logOp, logCalls, written>>

\* Back in log or addSink after an init() that went through; the lock_guard
\* of init has unlocked the mutex.
Resume(t) ==
    /\ logPc[t] = "resume"
    /\ Finish(t)
    /\ At(t, "unlock")
    /\ UNCHANGED <<initialized, mutexOwner, logOp, logCalls>>

\* The destructor of the function's lock_guard.
Release(t) ==
    /\ logPc[t] = "unlock"
    /\ mutexOwner' = IF mutexOwner = t THEN Null ELSE mutexOwner
    /\ At(t, "idle")
    /\ UNCHANGED <<initialized, sinks, logOp, logCalls, written>>

\* The static members as Logger.cpp defines them.
InitLogger ==
    /\ initialized = FALSE
    /\ sinks = 0
    /\ mutexOwner = Null
    /\ logPc = [t \in Threads |-> "idle"]
    /\ logOp = [t \in Threads |-> "init"]
    /\ logCalls = 0
    /\ written = 0

NextLogger ==
    /\ \/ \E t \in Threads, op \in LoggerOps : LoggerCall(t, op)
       \/ \E t \in Threads : Acquire(t)
       \/ \E t \in Threads : Body(t)
       \/ \E t \in Threads, outcome \in RelockOutcomes : Relock(t, outcome)
       \/ \E t \in Threads : Resume(t)
       \/ \E t \in Threads : Release(t)
    /\ UNCHANGED <<ecsVars, transformVars, managerVars, sceneVars, systemVars,
                   memberVars, timeVars, engineVars>>

\* ------------------------------------------------------------------ Engine
\* The statements of Engine::processFrame, in order.
RenderBeforeUpdate ==
    <<"time.update", "inputManager.update", "renderer.beginFrame",
      "sceneManager.render", "renderer.endFrame", "sceneManager.update",
      "physicsWorld.update", "audioManager.update">>

processFrame ==
    <<"time.update", "inputManager.update", "sceneManager.update",
      "physicsWorld.update", "renderer.beginFrame", "sceneManager.render",
      "renderer.endFrame", "audioManager.update">>

\* Engine::run enters the loop, or goes round it: processFrame() begins.
BeginFrame ==
    /\ running
    /\ enginePc = 0
    /\ frameNo < MaxLoops
    /\ frameNo' = frameNo + 1
    /\ frameLog' = <<>>
    /\ enginePc' = 1
    /\ UNCHANGED <<running, deltaTime, totalTime>>

\* time.update(), the first statement: the frame's delta time is measured.
TimeUpdate(dt) ==
    /\ running
    /\ enginePc = 1
    /\ frameLog' = Append(frameLog, processFrame[enginePc])
    /\ deltaTime' = dt
    /\ totalTime' = totalTime + dt
    /\ enginePc' = enginePc + 1
    /\ UNCHANGED <<running, frameNo>>

\* The next statement of processFrame, a call on a subsystem.
SubsystemCall ==
    /\ running
    /\ enginePc \in 2..Len(processFrame)
    /\ frameLog' = Append(frameLog, processFrame[enginePc])
    /\ enginePc' = enginePc + 1
    /\ UNCHANGED <<running, frameNo, deltaTime, totalTime>>

\* if (renderer->shouldClose() || inputManager->isKeyPressed(Key::Escape))
\* running = false; after processFrame has returned.
CheckQuit(quit) ==
    /\ running
    /\ enginePc = Len(processFrame) + 1
    /\ running' = ~quit
    /\ enginePc' = 0
    /\ UNCHANGED <<frameLog, frameNo, deltaTime, totalTime>>

\* Engine::run at running = true, before the first frame.
InitEngine ==
    /\ running = TRUE
    /\ enginePc = 0
    /\ frameLog = <<>>
    /\ frameNo = 0
    /\ deltaTime = 0
    /\ totalTime = 0

NextEngine ==
    /\ \/ BeginFrame
       \/ \E dt \in DeltaTimes : TimeUpdate(dt)
       \/ SubsystemCall
       \/ \E quit \in BOOLEAN : CheckQuit(quit)
    /\ UNCHANGED <<ecsVars, transformVars, managerVars, sceneVars, systemVars,
                   memberVars, timeVars, loggerVars>>

\* ----------------------------------------------------------- specification
Init ==
    /\ InitEngine
    /\ InitLogger
    /\ InitTime
    /\ InitSystem
    /\ InitSystems
    /\ InitScene
    /\ InitTransform
    /\ InitSceneManager
    /\ entities = EmptyMap
    /\ freeIds = <<>>
    /\ nextId \in InitialNextIds
    /\ idOf = EmptyMap
    /\ nextHandle = 1
    /\ components = EmptyMap
    /\ compHeap = EmptyMap
    /\ nextComp = 1
    /\ destroyed = EmptyMap
    /\ destroyLog = <<>>
    /\ reissueLog = <<>>
    /\ attached = {}
    /\ last = Call("init", 0, 0, "ok", 0)

\* The registry alone: createEntity and destroyEntity calls in any order.
NextRegistry ==
    /\ \/ CreateEntity(MaxEntities)
       \/ \E h \in EntityHandles \cup {ForeignEntity} : DestroyEntity(h)
    /\ UNCHANGED <<transformVars, managerVars, sceneVars, systemVars, memberVars,
                 coreVars>>

SpecRegistry == Init /\ [][NextRegistry]_vars

\* The registry and the component tables of its entities.
Next ==
    /\ \/ CreateEntity(MaxOwners)
       \/ \E h \in EntityHandles \cup {ForeignEntity} : DestroyEntity(h)
       \/ \E h \in EntityHandles, t \in Types : AddComponent(h, t)
       \/ \E h \in EntityHandles, t \in Types : RemoveComponent(h, t)
    /\ UNCHANGED <<transformVars, managerVars, sceneVars, systemVars, memberVars,
                 coreVars>>

Spec == Init /\ [][Next]_vars

\* The same, with callers that also use Component's public setOwner.
NextOwner ==
    \/ Next
    \/ /\ \E c \in 1..MaxComps, e \in EntityHandles \cup {ForeignEntity, Null} :
              SetOwner(c, e)
       /\ UNCHANGED <<transformVars, managerVars, sceneVars, systemVars, memberVars,
                    coreVars>>

SpecOwner == Init /\ [][NextOwner]_vars

\* Init for the specifications in which the EntityManager takes no step: its ID
\* counter, which nothing reads there, starts at 0.
InitIdleRegistry == Init /\ nextId = 0

\* The main loop of Engine::run.
SpecEngine == InitIdleRegistry /\ [][NextEngine]_vars

\* The Logger called from two threads.
SpecLogger == InitIdleRegistry /\ [][NextLogger]_vars

\* The timers of one Time object; a pass that has begun goes on.
SpecTimers ==
    InitIdleRegistry /\ [][NextTimers]_vars /\ WF_vars(PassStep /\ Elsewhere)

\* The timers of one Time object whose callbacks call back into it.
SpecReentrant == InitIdleRegistry /\ [][NextReentrant]_vars

\* One System's required set and the entities it is asked about.
SpecRequired == InitIdleRegistry /\ [][NextRequired]_vars

\* One movement System, its membership list and its updates.
SpecMembership == InitIdleRegistry /\ [][NextMembership]_vars

\* One System's membership list under addEntity, removeEntity and update.
SpecOrder == InitIdleRegistry /\ [][NextOrder]_vars

\* Entities destroyed while a System or another Transform points at them.
SpecLifetime == InitIdleRegistry /\ [][NextLifetime]_vars

\* The systems of one Scene under addSystem, getSystem, update and the
\* Scene's destruction, in any order.
SpecSystems == InitIdleRegistry /\ [][NextSystems]_vars

\* One Scene under createEntity(name), Entity::setName, destroyEntity and
\* getEntityByName, in any order.
SpecScene == Init /\ [][NextScene]_vars

\* A SceneManager under every call of its interface, in any order.
SpecSceneManager == InitIdleRegistry /\ [][NextSceneManager]_vars

\* Transforms under every mutator and matrix read, in any order.
SpecTransform == InitIdleRegistry /\ [][NextTransform]_vars

\* ================================================================== claims
\* Entities constructed and not yet destroyed.
Alive == (DOMAIN idOf) \ (DOMAIN destroyed)

\* C1: every entity returned by createEntity and not destroyed since is the one
\* getEntity returns for its ID; right after destroyEntity(e) destroyed e,
\* getEntity(e.id) is null.
C1_GetEntityFollowsLifetime ==
    /\ \A h \in Alive : getEntity(idOf[h]) = h
    /\ (last.op = "destroyEntity" /\ last.res = "destroyed")
           => getEntity(idOf[last.ent]) = Null

\* C1 witness: an entity was just destroyed while another one, holding a
\* recycled ID, is still alive.
C1_Witness ==
    /\ last.op = "destroyEntity"
    /\ last.res = "destroyed"
    /\ reissueLog # <<>>
    /\ \E h \in Alive : getEntity(idOf[h]) = h /\ idOf[h] # idOf[last.ent]

\* C2: no two live entities share an ID, no ID waiting in freeIds belongs to a
\* live entity, and no ID is in freeIds twice.
C2_IdsNeverShared ==
    /\ \A h1, h2 \in Alive : idOf[h1] = idOf[h2] => h1 = h2
    /\ \A i \in 1..Len(freeIds) : \A h \in Alive : idOf[h] # freeIds[i]
    /\ NoDuplicates(freeIds)

\* C2 witness: destroyEntity was just called a second time on an entity that is
\* already destroyed, while its ID is live again in a newer entity and another
\* ID waits in freeIds.
C2_Witness ==
    /\ last.op = "destroyEntity"
    /\ last.res = "stale"
    /\ last.ent \in DOMAIN destroyed
    /\ \E h \in Alive : idOf[h] = idOf[last.ent]
    /\ freeIds # <<>>

\* C3: createEntity takes IDs from freeIds in the order destroyEntity released
\* them: the IDs reissued so far are the first IDs released, in that order, the
\* queue holds exactly the released IDs that were not reissued yet, and a
\* recycling createEntity returns an entity with the ID it took.
C3_RecycleFifo ==
    /\ IsPrefix(reissueLog, destroyLog)
    /\ freeIds = SubSeq(destroyLog, Len(reissueLog) + 1, Len(destroyLog))
    /\ (last.op = "createEntity" /\ last.res = "recycled")
           => idOf[last.ent] = destroyLog[Len(reissueLog)]

\* C3 witness: entities 1 and 2 (different IDs) were both destroyed, then the
\* third createEntity got the ID released first and the other waits in freeIds.
C3_Witness ==
    /\ last.op = "createEntity"
    /\ last.res = "recycled"
    /\ last.ent = 3
    /\ Len(destroyLog) = 2
    /\ destroyLog[1] # destroyLog[2]
    /\ idOf[3] = destroyLog[1]
    /\ freeIds = <<destroyLog[2]>>

\* C4: nextId is above every ID ever issued and never decreases; createEntity
\* with an empty freeIds issues nextId and adds one to it; a recycling
\* createEntity and destroyEntity leave it alone.
C4_NextIdStep ==
    /\ nextId' >= nextId
    /\ (last'.op = "createEntity" /\ nextHandle' # nextHandle)
           => IF freeIds = <<>>
              THEN idOf'[nextHandle] = nextId /\ nextId' = nextId + 1
              ELSE idOf'[nextHandle] # nextId /\ nextId' = nextId
    /\ (last'.op = "destroyEntity") => nextId' = nextId

C4_NextIdCounter ==
    /\ [](\A h \in DOMAIN idOf : idOf[h] < nextId)
    /\ [][C4_NextIdStep]_vars

\* C4 witness: IDs were issued from the counter, one was recycled, and an entity
\* was destroyed afterwards.
C4_Witness ==
    /\ last.op = "destroyEntity"
    /\ last.res = "destroyed"
    /\ reissueLog # <<>>
    /\ Cardinality(DOMAIN idOf) = 4
    /\ \E h \in DOMAIN idOf : idOf[h] + 1 = nextId /\ h > 1

\* C5: destroyEntity with a stale reference (an entity already destroyed, or
\* one of another manager) changes neither entities, freeIds nor nextId.
C5_StaleDestroyStep ==
    \A h \in EntityHandles \cup {ForeignEntity} :
        (h \notin Alive /\ DestroyEntity(h)) => UNCHANGED registryVars

C5_StaleDestroyNoOp == [][C5_StaleDestroyStep]_vars

\* C5 witness: destroyEntity was just called with a destroyed entity whose ID
\* has been reissued to an entity that is still live.
C5_Witness ==
    /\ last.op = "destroyEntity"
    /\ last.res = "stale"
    /\ last.ent \in DOMAIN destroyed
    /\ getEntity(idOf[last.ent]) \in Alive

\* C6: an entity created on a recycled ID starts with an empty component table,
\* is the entity getEntity returns for that ID, is none of the destroyed
\* entities, and every component a destroyed entity held is gone.
C6_RecycledEntityIsNew ==
    (last.op = "createEntity" /\ last.res = "recycled") =>
        /\ components[last.ent] = EmptyMap
        /\ getEntity(idOf[last.ent]) = last.ent
        /\ last.ent \notin DOMAIN destroyed
        /\ \A g \in DOMAIN destroyed :
               /\ getEntity(idOf[g]) # g
               /\ destroyed[g] \cap DOMAIN compHeap = {}

\* C6 witness: createEntity just recycled the ID of an entity that was destroyed
\* while it held a component.
C6_Witness ==
    /\ last.op = "createEntity"
    /\ last.res = "recycled"
    /\ \E g \in DOMAIN destroyed :
           idOf[g] = idOf[last.ent] /\ destroyed[g] # {}

\* C7: addComponent<T> on an entity that has a T fails with "already exists" and
\* changes neither that entity's table nor any other table or component.
C7_DuplicateAddStep ==
    \A h \in EntityHandles, t \in Types :
        (h \in DOMAIN components /\ hasComponent(h, t) /\ AddComponent(h, t))
            => /\ last'.res = "AlreadyExists"
               /\ h \in DOMAIN components'
               /\ MapFind(components'[h], t)
               /\ components'[h][t] = components[h][t]
               /\ UNCHANGED <<components, compHeap>>

C7_DuplicateAddFails == [][C7_DuplicateAddStep]_vars

\* C7 witness: a duplicate addComponent was just rejected on an entity that holds
\* components of two types.
C7_Witness ==
    /\ last.op = "addComponent"
    /\ last.res = "AlreadyExists"
    /\ Cardinality(DOMAIN components[last.ent]) = 2

\* C8: getComponent<T> fails exactly when hasComponent<T> is false, which is
\* exactly when no successful addComponent<T> is outstanding (never added, or
\* removed since); otherwise it returns the component that add stored.
C8_GetMatchesLastAdd ==
    \A h \in DOMAIN components, t \in Types :
        /\ (getComponent(h, t) = NotFound) <=> ~hasComponent(h, t)
        /\ hasComponent(h, t) <=> (\E a \in attached : a[1] = h /\ a[2] = t)
        /\ \A a \in attached :
               (a[1] = h /\ a[2] = t) => getComponent(h, t) = a[3]

\* C8 witness: a component was just removed (getComponent of its type fails)
\* while the same entity still returns a component of another type.
C8_Witness ==
    /\ last.op = "removeComponent"
    /\ last.res = "true"
    /\ last.ent \in DOMAIN components
    /\ getComponent(last.ent, last.type) = NotFound
    /\ \E t \in Types : getComponent(last.ent, t) # NotFound

\* C9: removeComponent<T> returns false and changes nothing when T is absent;
\* when T is present it returns true, T is absent afterwards, every other
\* component of every entity is untouched, and the next addComponent<T> on that
\* entity succeeds.
C9_RemoveStep ==
    /\ \A h \in EntityHandles, t \in Types :
        (h \in DOMAIN components /\ RemoveComponent(h, t)) =>
            IF ~hasComponent(h, t)
            THEN last'.res = "false" /\ UNCHANGED <<components, compHeap>>
            ELSE /\ last'.res = "true"
                 /\ ~MapFind(components'[h], t)
                 /\ DOMAIN components' = DOMAIN components
                 /\ \A h2 \in DOMAIN components, t2 \in Types :
                        (<<h2, t2>> # <<h, t>>) =>
                            /\ MapFind(components'[h2], t2)
                                   <=> MapFind(components[h2], t2)
                            /\ MapFind(components[h2], t2) =>
                                   /\ components'[h2][t2] = components[h2][t2]
                                   /\ components[h2][t2] \in DOMAIN compHeap'
                                   /\ compHeap'[components[h2][t2]]
                                          = compHeap[components[h2][t2]]
    /\ (/\ last.op = "removeComponent"
        /\ last.res = "true"
        /\ AddComponent(last.ent, last.type)) => last'.res = "ok"

C9_RemoveComponent == [][C9_RemoveStep]_vars

\* C9 witness: removeComponent<T> just removed an entity's T while another
\* entity keeps its own component of the same type.
C9_Witness ==
    /\ last.op = "removeComponent"
    /\ last.res = "true"
    /\ \E h2 \in DOMAIN components :
           h2 # last.ent /\ hasComponent(h2, last.type)

\* C10: every entity holds at most one live component per type, and every
\* component stored in an entity's table has that entity as its owner.  Stated
\* for SpecOwner, whose callers also use the public Component::setOwner.
C10_OnePerTypeOwnedByEntity ==
    /\ \A c1, c2 \in DOMAIN compHeap :
           (compHeap[c1].owner = compHeap[c2].owner
               /\ compHeap[c1].type = compHeap[c2].type) => c1 = c2
    /\ \A h \in DOMAIN components : \A t \in DOMAIN components[h] :
           /\ components[h][t] \in DOMAIN compHeap
           /\ compHeap[components[h][t]].type = t
           /\ compHeap[components[h][t]].owner = h

\* ------------------------------------------------------------------- C11
\* The step is a call of a Transform mutator that changed the Transform
\* (setParent with the parent it already has changes nothing).
MutatorOps == {"setPosition", "setRotation", "setScale", "translate",
               "rotate", "scale"}
IsMutation ==
    \/ tLast'.op \in MutatorOps
    \/ tLast'.op = "setParent" /\ tLast'.arg # parent[tLast'.t]

OthersFlagsUnchanged ==
    \A u \in Transforms \ {tLast'.t} :
        /\ dirtyLocalMatrix'[u] = dirtyLocalMatrix[u]
        /\ dirtyWorldMatrix'[u] = dirtyWorldMatrix[u]

C11_BothFlagsStep ==
    IsMutation =>
        /\ dirtyLocalMatrix'[tLast'.t]
        /\ dirtyWorldMatrix'[tLast'.t]
        /\ OthersFlagsUnchanged

\* C11 as stated: every mutator, setParent with a different parent included,
\* leaves both dirtyLocalMatrix and dirtyWorldMatrix true on the mutated
\* Transform and changes neither flag on any other Transform.
C11_EveryMutatorSetsBothFlags == [][C11_BothFlagsStep]_vars

C11_MutatorFlagsStep ==
    /\ tLast'.op \in MutatorOps =>
           /\ dirtyLocalMatrix'[tLast'.t]
           /\ dirtyWorldMatrix'[tLast'.t]
           /\ OthersFlagsUnchanged
    /\ (tLast'.op = "setParent" /\ tLast'.arg # parent[tLast'.t]) =>
           /\ dirtyLocalMatrix'[tLast'.t] = dirtyLocalMatrix[tLast'.t]
           /\ dirtyWorldMatrix'[tLast'.t]
           /\ OthersFlagsUnchanged

\* C11, amended: setPosition, setRotation, setScale, translate, rotate and
\* scale leave both dirty flags true on the mutated Transform; setParent with
\* a different parent leaves dirtyWorldMatrix true and dirtyLocalMatrix as it
\* was; none of them changes a flag of any other Transform.
C11_MutatorFlags == [][C11_MutatorFlagsStep]_vars

\* A Transform whose matrices were clean was re-parented: its world flag is
\* dirty, its local flag still clean, and the new parent's flags are clean.
C11_Witness ==
    /\ tLast.op = "setParent"
    /\ tLast.arg # Null
    /\ parent[tLast.t] = tLast.arg
    /\ mutations = 1
    /\ ~dirtyLocalMatrix[tLast.t]
    /\ dirtyWorldMatrix[tLast.t]
    /\ ~dirtyLocalMatrix[tLast.arg]
    /\ ~dirtyWorldMatrix[tLast.arg]

\* ------------------------------------------------------------------- C12
TransformCachesUnchanged ==
    UNCHANGED <<dirtyLocalMatrix, dirtyWorldMatrix, localMatrix, worldMatrix,
                localRecomputes, worldRecomputes>>

\* getWorldMatrix() on a Transform whose world matrix is clean recomputes
\* nothing and returns the cached matrix.
C12_CleanReadStep ==
    (tLast'.op = "getWorldMatrix" /\ ~dirtyWorldMatrix[tLast'.t]) =>
        /\ ~tLast'.recomputed
        /\ tLast'.ret = worldMatrix[tLast'.t]
        /\ TransformCachesUnchanged

\* C12: between two consecutive mutations of a Transform, getWorldMatrix() and
\* getLocalMatrix() calls recompute its world matrix at most once and its local
\* matrix at most once; a getWorldMatrix() on a clean Transform recomputes
\* nothing and returns the cached value.
C12_MemoizedPerDirtyInterval ==
    /\ [](\A t \in Transforms :
             localRecomputes[t] <= 1 /\ worldRecomputes[t] <= 1)
    /\ [][C12_CleanReadStep]_vars

\* A getWorldMatrix() that found the world matrix clean, on a Transform both
\* of whose matrices were recomputed once since its last mutation.
C12_Witness ==
    /\ tLast.op = "getWorldMatrix"
    /\ ~tLast.recomputed
    /\ mutations > 0
    /\ localRecomputes[tLast.t] = 1
    /\ worldRecomputes[tLast.t] = 1
    /\ tLast.ret = worldMatrix[tLast.t]
    /\ tLast.ret # Identity

\* ------------------------------------------------------------------- C13
\* What getWorldMatrix() of child c would be if it were computed afresh from
\* the current position, rotation and scale of c and of its parentless parent.
FreshWorld(c) ==
    Mul(ComposeTRS(position[parent[c]], rotation[parent[c]], scale[parent[c]]),
        ComposeTRS(position[c], rotation[c], scale[c]))

\* A mutation of P changes neither flag and neither cached matrix of a child.
C13_ParentMutationStep ==
    \A c \in Transforms :
        (IsMutation /\ parent[c] # Null /\ tLast'.t = parent[c] /\ tLast'.t # c) =>
            /\ dirtyLocalMatrix'[c] = dirtyLocalMatrix[c]
            /\ dirtyWorldMatrix'[c] = dirtyWorldMatrix[c]
            /\ localMatrix'[c] = localMatrix[c]
            /\ worldMatrix'[c] = worldMatrix[c]

\* getWorldMatrix() of a world-clean child returns its cached world matrix,
\* whatever its parent's state is.
C13_ChildReadStep ==
    (/\ tLast'.op = "getWorldMatrix"
     /\ parent[tLast'.t] # Null
     /\ ~dirtyWorldMatrix[tLast'.t]) =>
        /\ tLast'.ret = worldMatrix[tLast'.t]
        /\ worldMatrix'[tLast'.t] = worldMatrix[tLast'.t]
        /\ parent'[tLast'.t] = parent[tLast'.t]

\* C13: no cascade invalidation.  Once C.getWorldMatrix() has been computed,
\* mutations of C's parent P leave C's dirty flags false and its cached
\* matrices as they were, and C.getWorldMatrix() returns the cached value, not
\* P's new world matrix times C's local matrix.
C13_NoCascadeInvalidation ==
    [][C13_ParentMutationStep /\ C13_ChildReadStep]_vars

\* C.getWorldMatrix() answered from the cache after P was mutated, with a
\* matrix that differs from the one a fresh computation would give.
C13_Witness ==
    /\ tLast.op = "getWorldMatrix"
    /\ ~tLast.recomputed
    /\ parent[tLast.t] # Null
    /\ parent[tLast.t] # tLast.t
    /\ parent[parent[tLast.t]] = Null
    /\ ~dirtyWorldMatrix[tLast.t]
    /\ dirtyWorldMatrix[parent[tLast.t]]
    /\ tLast.ret = worldMatrix[tLast.t]
    /\ tLast.ret # FreshWorld(tLast.t)

\* ------------------------------------------------------------------- C14
\* setParent(p) with p the current parent changes nothing of the Transform.
C14_SameParentStep ==
    (tLast'.op = "setParent" /\ tLast'.arg = parent[tLast'.t]) =>
        /\ parent' = parent
        /\ TransformCachesUnchanged
        /\ UNCHANGED <<position, rotation, scale>>

\* setParent(p) with another p re-parents and marks world-dirty; the flags and
\* caches of every other Transform, its own children included, are unchanged.
C14_NewParentStep ==
    (tLast'.op = "setParent" /\ tLast'.arg # parent[tLast'.t]) =>
        /\ parent' = [parent EXCEPT ![tLast'.t] = tLast'.arg]
        /\ dirtyWorldMatrix'[tLast'.t]
        /\ OthersFlagsUnchanged
        /\ localMatrix' = localMatrix
        /\ worldMatrix' = worldMatrix

\* C14: setParent(p) with p equal to the current parent is a no-op (parent,
\* both dirty flags and both cached matrices unchanged); with a different p it
\* sets the parent to p and marks the Transform world-dirty without changing
\* any flag of its children.
C14_SetParent == [][C14_SameParentStep /\ C14_NewParentStep]_vars

\* setParent(p) was called on a world-clean child of p that has a world-clean
\* child of its own: the call was a no-op and every flag is still clean.
C14_Witness ==
    /\ tLast.op = "setParent"
    /\ tLast.arg # Null
    /\ parent[tLast.t] = tLast.arg
    /\ ~dirtyWorldMatrix[tLast.t]
    /\ ~dirtyLocalMatrix[tLast.t]
    /\ \E c \in Transforms :
          parent[c] = tLast.t /\ ~dirtyWorldMatrix[c] /\ ~dirtyLocalMatrix[c]

\* ------------------------------------------------------------------- C15
C15_RepeatedCreateStep ==
    (mLast'.op = "createScene" /\ mLast'.arg \in DOMAIN scenes) =>
        /\ mLast'.res = scenes[mLast'.arg]
        /\ scenes' = scenes
        /\ sceneHeap' = sceneHeap
        /\ activeScene' = activeScene

\* C15: createScene(name) with a name that already exists returns the Scene
\* instance the map already holds for it and changes neither the scene map,
\* nor any scene, nor the active-scene pointer.
C15_CreateSceneIdempotent == [][C15_RepeatedCreateStep]_vars

\* createScene was repeated for the name of an active scene that has been
\* updated, while the manager holds another scene as well.
C15_Witness ==
    /\ mLast.op = "createScene"
    /\ mLast.arg \in DOMAIN scenes
    /\ mLast.res = scenes[mLast.arg]
    /\ Cardinality(DOMAIN addrOf) = Cardinality(DOMAIN scenes)
    /\ Cardinality(DOMAIN scenes) = 2
    /\ activeScene = mLast.res
    /\ sceneHeap[mLast.res].updates = 1

\* ------------------------------------------------------------------- C16
\* destroyScene(name) of the active scene clears the active pointer.
C16_DestroyActiveStep ==
    (/\ mLast'.op = "destroyScene"
     /\ mLast'.arg \in DOMAIN scenes
     /\ scenes[mLast'.arg] = activeScene) =>
        /\ activeScene' = Null
        /\ mLast'.res = TRUE

\* While no setActiveScene has succeeded since, update() and render() work
\* on no scene, and only a successful setActiveScene ends that.
C16_NoFrameStep ==
    activeDestroyed =>
        /\ mLast'.op \in {"update", "render"} =>
               mLast'.res = {} /\ sceneHeap' = sceneHeap
        /\ activeScene' # Null =>
               mLast'.op = "setActiveScene" /\ mLast'.res = TRUE

\* C16: destroyScene(name) on the active scene sets the active pointer to
\* null, and from then on update() and render() update and render no scene
\* until a later successful setActiveScene.
C16_DestroyActiveScene ==
    /\ [](activeDestroyed => activeScene = Null)
    /\ [][C16_DestroyActiveStep /\ C16_NoFrameStep]_vars

\* The active scene was destroyed while another scene stayed in the map, and
\* the second of two update() and render() calls, an update(), worked on no
\* scene.
C16_Witness ==
    /\ activeDestroyed
    /\ activeScene = Null
    /\ scenes # EmptyMap
    /\ mLast.op = "update"
    /\ mLast.res = {}
    /\ frames = 2

\* ------------------------------------------------------------------- C17
\* The Scene numbered id still exists.
SceneAlive(id) ==
    /\ id \in DOMAIN addrOf
    /\ addrOf[id] \in DOMAIN sceneHeap
    /\ sceneHeap[addrOf[id]].id = id

\* The Scene numbered id exists and is held in the manager's map.
CurrentlyOwned(id) == SceneAlive(id) /\ addrOf[id] \in Range(scenes)

C17_OnlyOwnedStep ==
    mLast'.op = "setActiveScene" =>
        /\ mLast'.res = CurrentlyOwned(mLast'.id)
        /\ ~mLast'.res => activeScene' = activeScene /\ scenes' = scenes

C17_PointerStep ==
    mLast'.op = "setActiveScene" =>
        /\ mLast'.res = (mLast'.arg \in Range(scenes))
        /\ mLast'.arg = Null => ~mLast'.res
        /\ (SceneAlive(mLast'.id) /\ ~sceneHeap[mLast'.arg].owned) => ~mLast'.res
        /\ mLast'.res => activeScene' = mLast'.arg
        /\ ~mLast'.res => activeScene' = activeScene
        /\ scenes' = scenes
        /\ sceneHeap' = sceneHeap

FrameStep(op, field) ==
    mLast'.op = op =>
        /\ \A a \in DOMAIN sceneHeap :
              a # activeScene => a \in DOMAIN sceneHeap' /\ sceneHeap'[a] = sceneHeap[a]
        /\ activeScene # Null =>
              /\ mLast'.res = {activeScene}
              /\ sceneHeap'[activeScene] =
                     [sceneHeap[activeScene] EXCEPT ![field] = @ + 1]
        /\ DOMAIN sceneHeap' = DOMAIN sceneHeap
        /\ UNCHANGED <<scenes, activeScene>>

\* C18: with several scenes in the manager, one update(dt) call updates
\* exactly the active scene, once, and leaves every other scene unchanged;
\* the same holds for render().
C18_OnlyActiveSceneFramed ==
    [][FrameStep("update", "updates") /\ FrameStep("render", "renders")]_vars

\* Two scenes are in the map; the active one has received one update() and
\* one render(), the other none.
C18_Witness ==
    /\ mLast.op = "render"
    /\ activeScene # Null
    /\ mLast.res = {activeScene}
    /\ sceneHeap[activeScene].updates = 1
    /\ sceneHeap[activeScene].renders = 1
    /\ \E a \in Range(scenes) \ {activeScene} :
          sceneHeap[a].updates = 0 /\ sceneHeap[a].renders = 0

\* ------------------------------------------------------------------- C19
\* createEntity(name) returns a new Entity and makes it the entry of name,
\* whatever the entry was; every Entity alive before stays alive and stored
\* under its ID.
C19_CreateByNameStep ==
    sLast'.op = "createEntity" =>
        /\ sLast'.res \notin DOMAIN idOf
        /\ sLast'.res \in Range(entities')
        /\ entityNames'[sLast'.name] = sLast'.res
        /\ \A e \in Range(entities) :
              /\ MapFind(entities', idOf[e])
              /\ entities'[idOf[e]] = e
              /\ idOf'[e] = idOf[e]

\* C19: createEntity(name) makes the new entity the one getEntityByName(name)
\* returns, also when an earlier live entity was created with that name; the
\* earlier entity stays alive and reachable by its ID.
C19_LastWriterWins ==
    /\ [](\A n \in EntityNames : sLast.op = "createEntity" /\ sLast.name = n
              => getEntityByName(n) = sLast.res)
    /\ [][C19_CreateByNameStep]_vars

\* Two live entities carry the same name; the name map holds the later one
\* and the earlier one is still returned for its ID.
C19_Witness ==
    /\ sLast.op = "createEntity"
    /\ \E e \in LiveEntities \ {sLast.res} :
          /\ nameOf[e] = sLast.name
          /\ e < sLast.res
          /\ getEntity(idOf[e]) = e
    /\ getEntityByName(sLast.name) = sLast.res

\* ------------------------------------------------------------------- C20
\* C20: after destroyEntity(e) no entry of the scene's name map points at e,
\* whatever createEntity(name), setName and destroyEntity calls came before;
\* getEntityByName never returns a destroyed entity.
C20_NoNameOfDestroyedEntity ==
    \A n \in EntityNames : getEntityByName(n) \notin DOMAIN destroyed

\* ------------------------------------------------------------------- C29
\* C29: getWorldMatrix() terminates for every parent linkage setParent can
\* build, a Transform that is its own parent and a cycle of Transforms
\* included: no call recurses without end.
C29_GetWorldMatrixTerminates == tLast.op # "overflow"

\* ------------------------------------------------------------------- C30
\* getWorldMatrix() has returned: both flags of the Transform are false.
C30_ReadStep ==
    tLast'.op = "getWorldMatrix" =>
        ~dirtyLocalMatrix'[tLast'.t] /\ ~dirtyWorldMatrix'[tLast'.t]

\* C30: in every reachable state of a Transform dirtyLocalMatrix implies
\* dirtyWorldMatrix ('local dirty, world clean' is never reached), and after
\* getWorldMatrix() returns both flags are false.
C30_LocalDirtyImpliesWorldDirty ==
    /\ [](\A t \in Transforms : dirtyLocalMatrix[t] => dirtyWorldMatrix[t])
    /\ [][C30_ReadStep]_vars

\* getWorldMatrix() returned for a Transform that was mutated and is now
\* clean, while the other Transform is world-dirty with a clean local matrix.
C30_Witness ==
    /\ tLast.op = "getWorldMatrix"
    /\ mutations > 0
    /\ ~dirtyLocalMatrix[tLast.t]
    /\ ~dirtyWorldMatrix[tLast.t]
    /\ \E u \in Transforms \ {tLast.t} :
          ~dirtyLocalMatrix[u] /\ dirtyWorldMatrix[u]

\* ------------------------------------------------------------------- C21
\* addSystem<T> whose initialize() returned false fails and stores nothing.
C21_FailedInitStep ==
    (yLast'.op = "addSystem" /\ ~yLast'.ok) =>
        /\ systems' = systems
        /\ sysHeap' = sysHeap
        /\ \A i \in DOMAIN sysDead' \ DOMAIN sysDead : ~sysDead'[i].registered
        /\ yLast'.res = "SystemInitFailed"

\* C21: if T.initialize() returns false during addSystem<T>, the operation
\* fails with an error and the new instance is not stored: getSystem<T>()
\* returns what it returned before and no other registered system is affected.
C21_FailedInitStoresNothing == [][C21_FailedInitStep]_vars

\* addSystem<T> failed while an earlier instance of T and a system of another
\* type are registered; both are still there.
C21_Witness ==
    /\ yLast.op = "addSystem"
    /\ ~yLast.ok
    /\ getSystem(yLast.type) # Null
    /\ Cardinality(DOMAIN systems) = 2
    /\ Cardinality(DOMAIN sysDead) = 1

\* ------------------------------------------------------------------- C22
\* A successful addSystem<T> registers the new instance under T and drops the
\* instance registered under T before; other types keep theirs.
C22_ReplaceStep ==
    (yLast'.op = "addSystem" /\ yLast'.ok) =>
        /\ yLast'.res \notin DOMAIN sysHeap \cup DOMAIN sysDead
        /\ MapFind(systems', yLast'.type)
        /\ systems'[yLast'.type] = yLast'.res
        /\ MapFind(systems, yLast'.type) =>
               /\ systems[yLast'.type] \notin Range(systems')
               /\ systems[yLast'.type] \notin DOMAIN sysHeap'
        /\ \A T \in SystemTypes \ {yLast'.type} :
               /\ MapFind(systems', T) = MapFind(systems, T)
               /\ MapFind(systems, T) => systems'[T] = systems[T]

\* C22: a Scene holds at most one system instance per type; after two
\* successful addSystem<T>() calls getSystem<T>() returns the instance of the
\* second call and the first is no longer registered.
C22_LastRegistrationWins ==
    /\ [](\A T \in DOMAIN systems :
             /\ systems[T] \in DOMAIN sysHeap
             /\ sysHeap[systems[T]].type = T)
    /\ [](DOMAIN sysHeap = Range(systems))
    /\ [][C22_ReplaceStep]_vars

\* A second successful addSystem<T>: getSystem<T>() is its instance, and the
\* instance an earlier call had registered for T is destroyed.
C22_Witness ==
    /\ yLast.op = "addSystem"
    /\ yLast.ok
    /\ getSystem(yLast.type) = yLast.res
    /\ \E i \in DOMAIN sysDead :
          /\ sysDead[i].registered
          /\ sysDead[i].type = yLast.type
          /\ i < yLast.res

\* ------------------------------------------------------------------- C23
\* C23: one Scene.update(dt) call invokes update(dt) exactly once on every
\* registered system, in the order in which the systems were registered with
\* addSystem.
C23_UpdateInRegistrationOrder ==
    yLast.op = "update" => updateLog = RegistrationOrder

\* ------------------------------------------------------------------- C24
\* C24: every system that was successfully registered has its shutdown()
\* called exactly once before it is destroyed, whether it is dropped by the
\* scene's destruction or replaced by a later addSystem of its type.
C24_ShutdownBeforeDestruction ==
    \A i \in DOMAIN sysDead :
        sysDead[i].registered => sysDead[i].shutdowns = 1

\* ---------------------------------------------------------------- C25
\* The component types that were attached to Entity h and not removed since.
AttachedTypes(h) == {a[2] : a \in {x \in attached : x[1] = h}}

\* C25: hasRequiredComponents(e) returns true exactly when the component
\* types attached to e include every type the System requires (always, when
\* it requires none), and the call changes neither the Entity nor the
\* membership list nor the required set.
C25_QueryStep ==
    uLast'.op = "hasRequiredComponents" =>
        /\ uLast'.res = (requiredComponents \subseteq AttachedTypes(uLast'.ent))
        /\ (requiredComponents = {} => uLast'.res)
        /\ UNCHANGED <<ecsVars, requiredComponents, members>>

C25_HasRequiredComponents == [][C25_QueryStep]_vars

\* An Entity that carries more than the System requires has been found to
\* satisfy a non-empty required set.
C25_Witness ==
    /\ uLast.op = "hasRequiredComponents"
    /\ uLast.res
    /\ requiredComponents # {}
    /\ AttachedTypes(uLast.ent) \ requiredComponents # {}

\* ---------------------------------------------------------------- C26
\* Every member of the list is a live Entity that carries a PlayerComponent.
MembersCanMove ==
    \A k \in DOMAIN members :
        /\ members[k] \in LiveEntities
        /\ PlayerComponent \in AttachedTypes(members[k])

\* C26: one update(dt) of the movement System moves every Entity of the
\* membership list by moveSpeed * dt along +Z, once, and leaves every other
\* Entity where it was, PlayerComponent or not.
C26_UpdateStep ==
    (uLast'.op = "update" /\ MembersCanMove) =>
        \A h \in LiveEntities :
            getPosition(ePosition', h) =
                getPosition(ePosition, h)
                  + (IF h \in Range(members)
                     THEN DefaultMoveSpeed * uLast'.arg
                     ELSE 0)

C27_ParentsAreLive ==
    \A h \in LiveEntities : getParent(h) \in LiveEntities \cup {Null}

\* ---------------------------------------------------------------- C28
\* C28: every Entity of a System's membership list is live.
C28_MembersAreLive ==
    \A k \in DOMAIN members : members[k] \in LiveEntities

\* ---------------------------------------------------------------- C31
\* C31: the active-scene pointer is null or the address of a Scene that the
\* manager's map holds, and that Scene exists.
C31_ActiveSceneIsOwned ==
    activeScene # Null =>
        /\ \E n \in DOMAIN scenes : scenes[n] = activeScene
        /\ activeScene \in DOMAIN sceneHeap
        /\ sceneHeap[activeScene].owned

\* The active Scene stands at an address where an earlier Scene, destroyed
\* since, was built.
C31_Witness ==
    /\ activeScene # Null
    /\ mLast.op = "setActiveScene"
    /\ mLast.res
    /\ \E i \in DOMAIN addrOf :
          /\ addrOf[i] = activeScene
          /\ sceneHeap[activeScene].id # i

\* ---------------------------------------------------------------- C35
\* C35: destroyScene(name) with no Scene of that name returns false and
\* changes nothing; destroying a Scene that is not the active one returns
\* true, erases that entry and that Scene only, and leaves the active-scene
\* pointer as it was.
C35_DestroyStep ==
    mLast'.op = "destroyScene" =>
        LET name == mLast'.arg
        IN  IF name \notin DOMAIN scenes
            THEN /\ mLast'.res = FALSE
                 /\ UNCHANGED <<scenes, activeScene, sceneHeap, addrOf, frames>>
            ELSE /\ mLast'.res = TRUE
                 /\ scenes[name] # activeScene =>
                       /\ activeScene' = activeScene
                       /\ DOMAIN scenes' = DOMAIN scenes \ {name}
                       /\ \A n \in DOMAIN scenes' : scenes'[n] = scenes[n]
                       /\ DOMAIN sceneHeap' = DOMAIN sceneHeap \ {scenes[name]}
                       /\ \A a \in DOMAIN sceneHeap' : sceneHeap'[a] = sceneHeap[a]

C35_DestroySceneFrame == [][C35_DestroyStep]_vars

\* A Scene has been destroyed while another one was active, and the active
\* one is still held and still active.
C35_Witness ==
    /\ mLast.op = "destroyScene"
    /\ mLast.res = TRUE
    /\ activeScene # Null
    /\ \E n \in DOMAIN scenes : scenes[n] = activeScene

\* ---------------------------------------------------------------- C32
\* C32: addComponent and removeComponent leave every membership list as it
\* is: a member that loses the required component stays a member, an Entity
\* that gains it does not become one.
C32_ComponentStep ==
    uLast'.op \in {"addComponent", "removeComponent"} => members' = members

C32_ComponentsLeaveMembership == [][C32_ComponentStep]_vars

\* A member has just had its PlayerComponent removed and is still a member,
\* while an Entity that carries a PlayerComponent is not one.
C32_Witness ==
    /\ uLast.op = "removeComponent"
    /\ last.res = "true"
    /\ uLast.ent \in Range(members)
    /\ PlayerComponent \notin AttachedTypes(uLast.ent)
    /\ \E h \in LiveEntities \ Range(members) :
          PlayerComponent \in AttachedTypes(h)

\* ---------------------------------------------------------------- C34
\* The place of Entity h in a list that holds it once.
PlaceOf(list, h) == CHOOSE k \in DOMAIN list : list[k] = h

\* C34: the membership list keeps insertion order.  addEntity of a new member
\* puts it behind all the others, removeEntity takes its Entity out and keeps
\* the others in the order they had, and one update runs the per-entity logic
\* on every member once, in list order.
C34_OrderStep ==
    /\ (uLast'.op = "addEntity" /\ uLast'.ent \notin Range(members)) =>
          /\ Len(members') = Len(members) + 1
          /\ members'[Len(members')] = uLast'.ent
          /\ \A k \in DOMAIN members : members'[k] = members[k]
    /\ uLast'.op = "removeEntity" =>
          /\ Range(members') = Range(members) \ {uLast'.ent}
          /\ NoDuplicates(members')
          /\ \A i, j \in DOMAIN members' :
                i < j => PlaceOf(members, members'[i]) < PlaceOf(members, members'[j])
    /\ (uLast'.op = "update" /\ MembersCanMove) =>
          /\ visited' = members
          /\ NoDuplicates(visited')

TRSOf(t) ==
    [a |-> (IF rotation[t] % 360 = 0 THEN 1 ELSE -1) * scale[t],
     b |-> position[t]]

\* C33: getWorldMatrix() of a Transform without parent returns the
\* translation * rotation * scale matrix of its current position, rotation
\* and scale, whatever mutators and reads came before; the translation part
\* of that matrix is getPosition().
C33_RootReadStep ==
    (tLast'.op = "getWorldMatrix" /\ parent[tLast'.t] = Null) =>
        /\ tLast'.ret = TRSOf(tLast'.t)
        /\ getTranslation(tLast'.ret) = position[tLast'.t]

C33_RootWorldMatrixIsCurrent == [][C33_RootReadStep]_vars

\* A Transform without parent that was moved, turned by half a turn and
\* scaled has been read, and the read recomputed the matrix.
C33_Witness ==
    /\ tLast.op = "getWorldMatrix"
    /\ parent[tLast.t] = Null
    /\ tLast.recomputed
    /\ position[tLast.t] # 0
    /\ rotation[tLast.t] % 360 # 0
    /\ scale[tLast.t] # 1

\* ---------------------------------------------------------------- C37
\* C37: every updateTimers call returns.
C37_UpdateTimersTerminates == (timePc # "idle") ~> (timePc = "idle")

\* ---------------------------------------------------------------- C38
\* C38: updateTimers never goes on with an iterator that a createTimer or
\* cancelTimer called from a callback has invalidated.
C38_NoInvalidatedAccess == timePc # "undefined"

\* ---------------------------------------------------------------- C39
\* C39: no thread waits for ever on Logger::mutex while holding it.
C39_NeverBlocksOnOwnMutex ==
    \A t \in Threads : ~(logPc[t] = "blocked" /\ mutexOwner = t)

\* ---------------------------------------------------------------- C36
\* The places of a call in the log of the frame under way.
PlacesOf(call) == {k \in DOMAIN frameLog : frameLog[k] = call}

\* The frame under way has made all its calls.
FrameComplete == enginePc \notin DOMAIN processFrame /\ frameNo > 0

\* C36: in a frame the scene is updated at most once and rendered at most
\* once; the render comes after the update, after renderer.beginFrame() and
\* before renderer.endFrame(); a frame that has made all its calls has
\* updated once and rendered once.
C36_UpdateThenRender ==
    /\ Cardinality(PlacesOf("sceneManager.update")) <= 1
    /\ Cardinality(PlacesOf("sceneManager.render")) <= 1
    /\ \A r \in PlacesOf("sceneManager.render") :
          /\ \E u \in PlacesOf("sceneManager.update") : u < r
          /\ \E b \in PlacesOf("renderer.beginFrame") : b < r
          /\ \A e \in PlacesOf("renderer.endFrame") : r < e
    /\ \A e \in PlacesOf("renderer.endFrame") :
          \E r \in PlacesOf("sceneManager.render") : r < e
    /\ FrameComplete =>
          /\ Cardinality(PlacesOf("sceneManager.update")) = 1
          /\ Cardinality(PlacesOf("sceneManager.render")) = 1
          /\ Cardinality(PlacesOf("renderer.endFrame")) = 1

\* The second frame of a run has made all its calls.
C36_Witness ==
    /\ frameNo = 2
    /\ FrameComplete
    /\ Len(frameLog) = Len(processFrame)

====
